---- MODULE Spec2Model ----
(***************************************************************************)
(* pg-database-utils: the batched row-update pipeline (sql.update_rows),   *)
(* the merge it ends with (sql.update_from) and the staging helpers        *)
(* (sql.select_into, sql.insert_into, schema.drop_table), over an abstract *)
(* relational database.                                                    *)
(***************************************************************************)
EXTENDS Integers, Sequences, FiniteSets, TLC

(***************************************************************************)
(* Bounds                                                                  *)
(***************************************************************************)
\* largest number of rows of the target table
MaxRows == 3
\* non-NULL column values are 1..MaxVal
MaxVal == 2
\* largest number of rows of the source table of a direct update_from call
MaxFromRows == 2
\* largest number of rows of the target table of a direct update_from call
MaxIntoRows == 2
\* rows of the target table two concurrent runs of update_rows work on
MaxConcurrentRows == 1
\* days and hours of the date and datetime values given to the VALUES compiler
MaxDay == 2
\* the longest row of literal values and the most rows a direct select_into
\* or insert_into call is given
MaxRowLength == 3
MaxValues == 2

(***************************************************************************)
(* Values, rows, tables                                                    *)
(***************************************************************************)
\* Python None / SQL NULL
NULL == 0
Values == 0..MaxVal

Range(s) == {s[i] : i \in 1..Len(s)}

\* a table that does not exist
Absent == [exists |-> FALSE, cols |-> <<>>, geom |-> {}, rows |-> <<>>, types |-> <<>>]
\* an existing table: ordered column names, the names of its Geometry
\* typed columns, its rows in physical order
TypedTable(cols, types, rows) ==
  [exists |-> TRUE, cols |-> cols,
   geom |-> {cols[i] : i \in {j \in 1..Len(cols) : types[j] \in {"geometry(POINT,4326)", "geometry"}}},
   rows |-> rows, types |-> types]

\* a table of integer columns, but for its Geometry columns geom
Table(cols, geom, rows) ==
  TypedTable(cols,
             [i \in 1..Len(cols) |-> IF cols[i] \in geom THEN "geometry(POINT,4326)"
                                     ELSE "INTEGER"],
             rows)

Databases == {"default", "other"}
TableNames == {"t", "tmp_t"}
Runs == {1, 2}

\* the database an engine argument is bound to; None is get_engine()
EngineDb(engine) == IF engine = "None" THEN "default" ELSE engine

VARIABLES
  db,      \* db[d][name]: the tables of database d
  db0,     \* db before the call(s)
  args,    \* args[r]: the arguments of call r
  pc,      \* pc[r]: position of call r
  loc,     \* loc[r]: local variables of call r
  ret,     \* ret[r]: what update_row returned, one entry per call of it
  ops,     \* ops[r]: the database operations of call r, in order
  report   \* report[r]: the outcome reports logged by call r

vars == <<db, db0, args, pc, loc, ret, ops, report>>

(***************************************************************************)
(* schema.py                                                               *)
(***************************************************************************)
\* the table called name in database d of dbs
table_in(dbs, d, name) == IF name \in TableNames THEN dbs[d][name] ELSE Absent

\* get_table: the reflected table, or None (Absent) / ValueError
get_table(d, name) == table_in(db, d, name)

\* table_exists(name): looked up with the default engine
table_exists(name) == get_table("default", name).exists

\* get_table_count(table)
get_table_count(tbl) == Len(tbl.rows)

\* drop_table that drops nothing
drop_table_nothing(name) == db

\* drop_table(name, checkfirst=True): the database after the call; the
\* table is looked up with the default engine
drop_table(name) ==
  IF get_table("default", name).exists
  THEN [db EXCEPT !["default"][name] = Absent]
  ELSE db

(***************************************************************************)
(* validation.py                                                           *)
(***************************************************************************)
\* validate_columns_in: TRUE when it returns, FALSE when it raises ValueError
validate_columns_in(tbl, column_names) ==
  /\ tbl.exists
  /\ column_names # <<>>
  /\ \A i \in 1..Len(column_names) : column_names[i] \in Range(tbl.cols)

(***************************************************************************)
(* SQL three-valued logic                                                  *)
(***************************************************************************)
SqlEq(a, b) == IF a = NULL \/ b = NULL THEN "null" ELSE IF a = b THEN "true" ELSE "false"
SqlNot(x) == IF x = "null" THEN "null" ELSE IF x = "true" THEN "false" ELSE "true"
SqlAnd(S) == IF "false" \in S THEN "false" ELSE IF "null" \in S THEN "null" ELSE "true"
SqlOr(S) == IF "true" \in S THEN "true" ELSE IF "null" \in S THEN "null" ELSE "false"
\* a <> b instead of a IS DISTINCT FROM b
IsDistinctFrom_not_equal(a, b) == SqlNot(SqlEq(a, b))
IsDistinctFrom(a, b) == IF a = b THEN "false" ELSE "true"
ST_Equals(a, b) == SqlEq(a, b)

(***************************************************************************)
(* sql.update_from                                                         *)
(***************************************************************************)
\* target_columns=None (a list never holds this name)
None == <<"<None>">>

\* update columns that keep the join columns
update_cols_with_join(from_table, join_columns, target_columns) ==
  LET wanted(c) == target_columns = None \/ "*" \in Range(target_columns)
                   \/ c \in Range(target_columns)
  IN SelectSeq(from_table.cols, LAMBDA c : wanted(c))

\* the names of the columns update_from assigns, in the source's order
update_cols(from_table, join_columns, target_columns) ==
  LET wanted(c) == target_columns = None \/ "*" \in Range(target_columns)
                   \/ c \in Range(target_columns)
  IN SelectSeq(from_table.cols, LAMBDA c : wanted(c) /\ c \notin Range(join_columns))

\* an UPDATE without the join condition
join_where_missing(join_columns, s, t) == "true"

\* WHERE from.j = into.j AND ... over the join columns
join_where(join_columns, s, t) ==
  SqlAnd({SqlEq(s[c], t[c]) : c \in Range(join_columns)})

\* one disjunct of the change predicate
col_differs(from_table, c, s, t) ==
  IF c \in from_table.geom
  THEN SqlNot(ST_Equals(s[c], t[c]))
  ELSE IsDistinctFrom(s[c], t[c])

\* OR of the per-column change predicates
skip_where(from_table, cols, s, t) ==
  SqlOr({col_differs(from_table, c, s, t) : c \in Range(cols)})

\* the source rows an UPDATE ... FROM joins to target row t
matches(from_table, join_columns, cols, t) ==
  {i \in 1..Len(from_table.rows) :
     /\ join_where(join_columns, from_table.rows[i], t) = "true"
     /\ skip_where(from_table, cols, from_table.rows[i], t) = "true"}

\* SET c = from.c for every update column
set_values(cols, s, t) == [c \in DOMAIN t |-> IF c \in Range(cols) THEN s[c] ELSE t[c]]

\* one element of each set of a sequence of sets, in every way
RECURSIVE one_of_each(_)
one_of_each(sets) ==
  IF sets = <<>> THEN {<<>>}
  ELSE {<<h>> \o t : h \in Head(sets), t \in one_of_each(Tail(sets))}

\* the possible effects of the UPDATE: the target's rows afterwards and
\* the positions of the rows it wrote; a target row joined to several
\* source rows is written from any one of them
update_results(from_table, into_table, join_columns, cols) ==
  LET n == Len(into_table.rows)
      m == [i \in 1..n |->
              LET found == matches(from_table, join_columns, cols, into_table.rows[i])
              IN IF found = {} THEN {0} ELSE found]
  IN {[rows |-> [i \in 1..n |-> IF p[i] = 0 THEN into_table.rows[i]
                                ELSE set_values(cols, from_table.rows[p[i]], into_table.rows[i])],
       written |-> {i \in 1..n : p[i] # 0}]
        : p \in one_of_each(m)}

\* a warning that names no column
ignore_cols_none(target_columns, cols) == <<>>

\* the names the "ignoring columns" warning lists, none when it is not logged
ignore_cols(target_columns, cols) ==
  IF target_columns # None /\ target_columns # <<>> /\ Len(target_columns) > Len(cols)
  THEN SelectSeq(target_columns, LAMBDA c : c \notin Range(cols))
  ELSE <<>>

\* a test that never finds the update columns empty
no_update_cols_never(cols) == FALSE

\* "if not update_cols"
no_update_cols(cols) == cols = <<>>

\* update_from(table_name, into_table_name, join_columns, target_columns) on
\* database d: the ways the call can end.  exc is the exception raised
\* ("none" on return), rows the target's rows afterwards, written the
\* positions of the rows the UPDATE wrote, sql whether the UPDATE statement
\* was executed, warn the warning logged
update_from(d, table_name, into_table_name, join_columns, target_columns) ==
  LET from_table == get_table(d, table_name)
      into_table == get_table(d, into_table_name)
      cols == update_cols(from_table, join_columns, target_columns)
      ignored == ignore_cols(target_columns, cols)
      end(e, rows, sql, warn) ==
        [exc |-> e, rows |-> rows, written |-> {}, sql |-> sql, warn |-> warn,
         update_cols |-> cols,
         ignore_cols |-> IF warn = "ignoring columns" THEN ignored ELSE <<>>]
      ignoring == IF ignored # <<>> THEN "ignoring columns" ELSE "none"
  IN IF ~validate_columns_in(from_table, join_columns)
        \/ ~validate_columns_in(into_table, join_columns)
     THEN {end("ValueError", into_table.rows, FALSE, "none")}
     ELSE IF no_update_cols(cols)
     THEN {end("none", into_table.rows, FALSE, "no columns to update")}
     ELSE IF \E i \in 1..Len(cols) : cols[i] \notin Range(into_table.cols)
     THEN {end("KeyError", into_table.rows, FALSE, ignoring)}
     ELSE {[end("none", u.rows, TRUE, ignoring) EXCEPT !.written = u.written] :
             u \in update_results(from_table, into_table, join_columns, cols)}
          \cup {end("DBError", into_table.rows, TRUE, ignoring)}

(***************************************************************************)
(* types.column_type_for, sql.Values                                       *)
(***************************************************************************)
\* the lower case letter of every upper case letter
ascii_lowercase ==
  "A" :> "a" @@ "B" :> "b" @@ "C" :> "c" @@ "D" :> "d" @@ "E" :> "e" @@ "F" :> "f"
  @@ "G" :> "g" @@ "H" :> "h" @@ "I" :> "i" @@ "J" :> "j" @@ "K" :> "k" @@ "L" :> "l"
  @@ "M" :> "m" @@ "N" :> "n" @@ "O" :> "o" @@ "P" :> "p" @@ "Q" :> "q" @@ "R" :> "r"
  @@ "S" :> "s" @@ "T" :> "t" @@ "U" :> "u" @@ "V" :> "v" @@ "W" :> "w" @@ "X" :> "x"
  @@ "Y" :> "y" @@ "Z" :> "z"

\* str.lower() of one character
lower_char(c) == IF c \in DOMAIN ascii_lowercase THEN ascii_lowercase[c] ELSE c

\* str.lower() of the characters of x from the i-th on
RECURSIVE lower_from(_, _)
lower_from(x, i) ==
  IF i > Len(x) THEN "" ELSE lower_char(SubSeq(x, i, i)) \o lower_from(x, i + 1)

\* the type strings of the columns and calls of this model
TypeStrings ==
  {"INTEGER", "BOOLEAN", "DATE", "TEXT", "NUMERIC", "TIMESTAMP", "JSON", "JSONB",
   "VARCHAR(10)", "NUMERIC(10, 2)", "TIMESTAMP WITHOUT TIME ZONE",
   "geometry(POINT,4326)", "geometry", "raster", "integer", "int", "numeric", "bool",
   "varchar"}

\* str.lower()
lower(x) == lower_from(x, 1)

\* the names COLUMN_TYPE_MAP knows and the sqltypes class of each
COLUMN_TYPE_MAP ==
  [k \in {"bool", "boolean", "bigint", "binary", "bytea", "geometry", "geography",
          "int", "integer", "float", "date", "datetime", "decimal", "double",
          "numeric", "number", "json", "jsonb", "raster", "string", "text",
          "timestamp", "unicode", "varchar"} |->
     CASE k \in {"bool", "boolean"} -> "Boolean"
       [] k = "bigint" -> "BigInteger"
       [] k \in {"binary", "bytea"} -> "LargeBinary"
       [] k = "geometry" -> "Geometry"
       [] k = "geography" -> "Geography"
       [] k \in {"int", "integer"} -> "Integer"
       [] k = "float" -> "Float"
       [] k = "date" -> "Date"
       [] k \in {"datetime", "timestamp"} -> "DateTime"
       [] k \in {"decimal", "double", "numeric", "number"} -> "Numeric"
       [] k = "json" -> "JSON"
       [] k = "jsonb" -> "JSONB"
       [] k = "raster" -> "Raster"
       [] OTHER -> "UnicodeText"]

\* COLUMN_TYPE_MAP.get(column_type.lower(), COLUMN_TYPE_MAP[default])
column_type_get(column_type) ==
  IF lower(column_type) \in DOMAIN COLUMN_TYPE_MAP
  THEN COLUMN_TYPE_MAP[lower(column_type)]
  ELSE COLUMN_TYPE_MAP["unicode"]

\* the class of each of the type strings of this model, computed once
column_type_of == [x \in TypeStrings |-> column_type_get(x)]

\* column_type_for(column_type, default='unicode') of a type given as a string
column_type_for(column_type) ==
  IF column_type \in TypeStrings THEN column_type_of[column_type]
  ELSE column_type_get(column_type)

\* a Values that takes the default type when the types do not fit the columns
Values_init_defaulting(cols, types) ==
  [exc |-> "none", types |-> [i \in 1..Len(cols) |-> "UnicodeText"]]

\* Values.__init__(cols, types, *args): the exception raised and self.types;
\* types is None or a list of type names
Values_init(cols, types) ==
  IF types = None \/ Len(types) = 0
  THEN [exc |-> "none", types |-> [i \in 1..Len(cols) |-> "UnicodeText"]]
  ELSE IF Len(cols) = Len(types)
  THEN [exc |-> "none", types |-> [i \in 1..Len(types) |-> column_type_for(types[i])]]
  ELSE [exc |-> "ArgumentError", types |-> <<>>]

\* _values(element, compiler): compiling every value of every tuple with
\* element.types[idx] raises IndexError at a tuple longer than the types
values_compile(types, vals) ==
  IF \E i \in 1..Len(vals) : Len(vals[i]) > Len(types) THEN "IndexError" ELSE "none"

\* the column type PostgreSQL gives a column of literals compiled for a class
staged_type(cls) ==
  CASE cls \in {"LargeBinary", "UnicodeText"} -> "TEXT"
    [] cls \in {"Float", "Numeric"} -> "NUMERIC"
    [] cls \in {"Integer", "BigInteger"} -> "INTEGER"
    [] cls = "Boolean" -> "BOOLEAN"
    [] cls = "Date" -> "DATE"
    [] cls = "DateTime" -> "TIMESTAMP"
    [] cls = "JSON" -> "JSON"
    [] cls = "JSONB" -> "JSONB"
    [] cls \in {"Geometry", "Geography"} -> "geometry"
    [] OTHER -> "raster"

(***************************************************************************)
(* sql.select_into, sql.insert_into                                        *)
(***************************************************************************)
tmp_table_name(table_name) == "tmp_" \o table_name

Min(a, b) == IF a < b THEN a ELSE b
Index(s, c) == CHOOSE i \in 1..Len(s) : s[i] = c /\ \A j \in 1..(i - 1) : s[j] # c

\* the rows of a VALUES relation: positional tuples named by column_names
values_rows(column_names, values) ==
  [i \in 1..Len(values) |->
     [c \in Range(column_names) |-> values[i][Index(column_names, c)]]]

\* column_types = [str(table.columns[c].type) for c in column_names]
col_types(table, names) ==
  [i \in 1..Len(names) |-> table.types[Index(table.cols, names[i])]]

\* the table a SELECT INTO of the VALUES relation creates
created_table(column_names, types, values) ==
  TypedTable(column_names, [i \in 1..Len(types) |-> staged_type(types[i])],
             values_rows(column_names, values))

\* the rows an INSERT of the VALUES relation adds: NULL in the other columns
inserted_rows(into_table, column_names, values) ==
  [i \in 1..Len(values) |->
     [c \in Range(into_table.cols) |->
        IF c \in Range(column_names) THEN values[i][Index(column_names, c)] ELSE NULL]]

\* all(row_length == len(val) for val in values)
all_row_length(row_length, values) == \A i \in 1..Len(values) : Len(values[i]) = row_length

\* a select_into that adds its rows to a table that exists
select_into_appending(table_name, values, column_names, column_types, inspect, engine) ==
  LET d == EngineDb(engine)
      old == get_table(d, table_name)
      element == Values_init(column_names, column_types)
      new == created_table(column_names, element.types, values)
  IN {[exc |-> "none", sql |-> "executed", types |-> element.types,
       db |-> [db EXCEPT ![d][table_name] =
                 IF old.exists THEN [new EXCEPT !.rows = old.rows \o new.rows] ELSE new]]}

\* a select_into that waits while the table exists
select_into_waiting(table_name, values, column_names, column_types, inspect, engine) ==
  LET d == EngineDb(engine)
      element == Values_init(column_names, column_types)
      created == created_table(column_names, element.types, values)
  IN IF table_exists(table_name) \/ get_table(d, table_name).exists
     THEN {}
     ELSE {[exc |-> "none", sql |-> "executed", types |-> element.types,
            db |-> [db EXCEPT ![d][table_name] = created]]}

\* a select_into that checks the length of the rows whatever inspect says
select_into_inspecting(table_name, values, column_names, column_types, inspect, engine) ==
  LET d == EngineDb(engine)
      end(e, q, t, newdb) == [exc |-> e, sql |-> q, types |-> t, db |-> newdb]
      element == Values_init(column_names, column_types)
      created == created_table(column_names, element.types, values)
  IN IF table_exists(table_name) \/ column_names = <<>>
        \/ (Len(values) # 0 /\ column_types # None /\ Len(column_types) # 0
            /\ Len(column_names) # Len(column_types))
        \/ ~all_row_length(Len(column_names), values)
     THEN {end("ValueError", "none", <<>>, db)}
     ELSE IF Len(values) = 0
     THEN {end("none", "none", <<>>, db)}
     ELSE IF get_table(d, table_name).exists
     THEN {end("DBError", "executed", element.types, db)}
     ELSE {end("none", "executed", element.types, [db EXCEPT ![d][table_name] = created]),
           end("DBError", "executed", element.types, db)}

\* a select_into that leaves types of another length to Values
select_into_any_types(table_name, values, column_names, column_types, inspect, engine) ==
  LET d == EngineDb(engine)
      end(e, q, t, newdb) == [exc |-> e, sql |-> q, types |-> t, db |-> newdb]
      element == Values_init_defaulting(column_names, column_types)
      created == created_table(column_names, element.types, values)
  IN IF table_exists(table_name)
     THEN {end("ValueError", "none", <<>>, db)}
     ELSE IF Len(values) = 0
     THEN {end("none", "none", <<>>, db)}
     ELSE IF column_names = <<>>
     THEN {end("ValueError", "none", <<>>, db)}
     ELSE IF inspect /\ ~all_row_length(Len(column_names), values)
     THEN {end("ValueError", "none", <<>>, db)}
     ELSE IF values_compile(element.types, values) # "none"
     THEN {end(values_compile(element.types, values), "compiling", element.types, db)}
     ELSE IF get_table(d, table_name).exists
             \/ ~all_row_length(Len(column_names), values)
     THEN {end("DBError", "executed", element.types, db)}
     ELSE {end("none", "executed", element.types, [db EXCEPT ![d][table_name] = created]),
           end("DBError", "executed", element.types, db)}

\* select_into(table_name, values, column_names, column_types=None,
\* inspect=True, engine=None): the ways the call can end, each with the
\* exception raised, how far the statement got (none, compiling, executed),
\* the types of the VALUES relation and the database afterwards
select_into(table_name, values, column_names, column_types, inspect, engine) ==
  LET d == EngineDb(engine)
      end(e, q, t, newdb) == [exc |-> e, sql |-> q, types |-> t, db |-> newdb]
      element == Values_init(column_names, column_types)
      created == created_table(column_names, element.types, values)
  IN IF table_exists(table_name)
     THEN {end("ValueError", "none", <<>>, db)}
     ELSE IF Len(values) = 0
     THEN {end("none", "none", <<>>, db)}
     ELSE IF column_names = <<>>
     THEN {end("ValueError", "none", <<>>, db)}
     ELSE IF column_types # None /\ Len(column_types) # 0
             /\ Len(column_names) # Len(column_types)
     THEN {end("ValueError", "none", <<>>, db)}
     ELSE IF inspect /\ ~all_row_length(Len(column_names), values)
     THEN {end("ValueError", "none", <<>>, db)}
     ELSE IF element.exc # "none"
     THEN {end(element.exc, "none", <<>>, db)}
     ELSE IF values_compile(element.types, values) # "none"
     THEN {end(values_compile(element.types, values), "compiling", element.types, db)}
     ELSE IF get_table(d, table_name).exists
             \/ ~all_row_length(Len(column_names), values)
     THEN {end("DBError", "executed", element.types, db)}
     ELSE {end("none", "executed", element.types, [db EXCEPT ![d][table_name] = created]),
           end("DBError", "executed", element.types, db)}

\* insert_into that replaces the rows of the table instead of adding to them
insert_into_replacing(table_name, values, column_names, inspect, engine) ==
  LET d == EngineDb(engine)
      into_table == get_table(d, table_name)
      end(e, q, t, newdb) == [exc |-> e, sql |-> q, types |-> t, db |-> newdb]
      rows == values_rows(column_names, values)
  IN IF ~into_table.exists
     THEN {end("ValueError", "none", <<>>, db)}
     ELSE {end("none", "executed", <<>>, [db EXCEPT ![d][table_name].rows = rows])}

\* insert_into(table_name, values, column_names, create_if_not_exists=False,
\* inspect=True, engine=None): the ways the call can end
insert_into(table_name, values, column_names, inspect, engine) ==
  LET d == EngineDb(engine)
      into_table == get_table(d, table_name)
      end(e, q, t, newdb) == [exc |-> e, sql |-> q, types |-> t, db |-> newdb]
      element == Values_init(column_names, col_types(into_table, column_names))
      rows == into_table.rows \o inserted_rows(into_table, column_names, values)
  IN IF ~into_table.exists
     THEN {end("ValueError", "none", <<>>, db)}
     ELSE IF ~validate_columns_in(into_table, column_names)
     THEN {end("ValueError", "none", <<>>, db)}
     ELSE IF Len(values) = 0
     THEN {end("none", "none", <<>>, db)}
     ELSE IF inspect /\ ~all_row_length(Len(column_names), values)
     THEN {end("ValueError", "none", <<>>, db)}
     ELSE IF values_compile(element.types, values) # "none"
     THEN {end(values_compile(element.types, values), "compiling", element.types, db)}
     ELSE IF ~all_row_length(Len(column_names), values)
     THEN {end("DBError", "executed", element.types, db)}
     ELSE {end("none", "executed", element.types, [db EXCEPT ![d][table_name].rows = rows]),
           end("DBError", "executed", element.types, db)}

(***************************************************************************)
(* sql.update_rows                                                         *)
(***************************************************************************)
NoLocals ==
  [table_count |-> 0, batch_size |-> 0, select_query |-> <<>>, offset |-> 0,
   table_created |-> FALSE, fetched |-> <<>>, rows_to_send |-> <<>>,
   update_count |-> 0, written |-> {}, update_cols |-> <<>>, ignore_cols |-> <<>>,
   exc |-> "none", sql |-> "none", types |-> <<>>]

Op(name, ok) == [op |-> name, ok |-> ok]

\* column_names = tuple(join_columns) + tuple(target_columns)
column_names(r) == args[r].join_columns \o args[r].target_columns

\* what update_row may do with a fetched row: skip it, raise, or return a
\* replacement of the same length, whose join value is the row's own or
\* another one
update_row(row) ==
  {[kind |-> "None", row |-> row], [kind |-> "raise", row |-> row]}
  \cup {[kind |-> "row", row |-> <<row[1], v>>] : v \in Values}
  \cup {[kind |-> "row", row |-> <<(row[1] % MaxRows) + 1, MaxVal>>]}

\* replacements that do not have one value for each of column_names
update_row_misfits(row) ==
  {[kind |-> "row", row |-> <<row[1]>>], [kind |-> "row", row |-> <<row[1], MaxVal, MaxVal>>]}

\* what the update_row of call a returns for a row: the docstring asks for
\* one value for each join and target column, and nothing checks it
update_row_returns(a, row) ==
  IF a.returns = "any length" THEN update_row(row) \cup update_row_misfits(row)
  ELSE update_row(row)

\* the validation without the batch size check
valid_arguments_any_batch_size(a, table) ==
  /\ table.exists
  /\ validate_columns_in(table, a.join_columns)
  /\ validate_columns_in(table, a.target_columns)
  /\ a.update_row = "function"

\* checks that accept target columns the table lacks
valid_arguments_any_target_columns(a, table) ==
  /\ table.exists
  /\ validate_columns_in(table, a.join_columns)
  /\ a.target_columns # <<>>
  /\ a.update_row = "function"
  /\ a.batch_size # 0

\* lines 197-219: the checks a call must pass
valid_arguments(a, table) ==
  /\ table.exists
  /\ validate_columns_in(table, a.join_columns)
  /\ validate_columns_in(table, a.target_columns)
  /\ a.update_row = "function"
  /\ a.batch_size # 0

\* lines 197-219: look the table up and validate the arguments
update_rows_validate(r) ==
  /\ pc[r] = "call"
  /\ LET a == args[r]
         table == get_table(EngineDb(a.engine), a.table_name)
     IN IF valid_arguments(a, table)
        THEN /\ pc' = [pc EXCEPT ![r] = "count"]
             /\ loc' = loc
        ELSE /\ pc' = [pc EXCEPT ![r] = "raised"]
             /\ loc' = [loc EXCEPT ![r].exc = "ValueError"]
  /\ UNCHANGED <<db, db0, args, ret, ops, report>>

\* a count check that never stops the run
no_rows_never(table_count) == FALSE

\* line 232: if table_count == 0
no_rows(table_count) == table_count = 0

\* lines 229-234: count the rows, resolve the batch size, stop if empty
update_rows_count(r) ==
  /\ pc[r] = "count"
  /\ LET a == args[r]
         table_count == get_table_count(get_table(EngineDb(a.engine), a.table_name))
         batch_size == IF a.batch_size < 0 THEN table_count ELSE a.batch_size
     IN /\ loc' = [loc EXCEPT ![r].table_count = table_count,
                              ![r].batch_size = batch_size]
        /\ ops' = [ops EXCEPT ![r] = Append(@, Op("get_table_count", TRUE))]
        /\ IF no_rows(table_count)
           THEN /\ report' = [report EXCEPT ![r] = Append(@, "no rows to update")]
                /\ pc' = [pc EXCEPT ![r] = "returned"]
           ELSE /\ report' = report
                /\ pc' = [pc EXCEPT ![r] = "select"]
  /\ UNCHANGED <<db, db0, args, ret>>

\* lines 239-243: open the streaming cursor over join + target columns
update_rows_select(r) ==
  /\ pc[r] = "select"
  /\ LET a == args[r]
         table == get_table(EngineDb(a.engine), a.table_name)
         names == column_names(r)
     IN loc' = [loc EXCEPT
          ![r].select_query =
             [i \in 1..Len(table.rows) |-> [j \in 1..Len(names) |-> table.rows[i][names[j]]]],
          ![r].table_created = FALSE,
          ![r].offset = 0]
  /\ ops' = [ops EXCEPT ![r] = Append(@, Op("select", TRUE))]
  /\ pc' = [pc EXCEPT ![r] = "fetchmany"]
  /\ UNCHANGED <<db, db0, args, ret, report>>

\* a fetch that keeps the rows of the batches before in rows_to_send
update_rows_fetchmany_keeping(r) ==
  /\ pc[r] = "fetchmany"
  /\ LET l == loc[r]
         n == Min(l.batch_size, Len(l.select_query))
         fetched == SubSeq(l.select_query, 1, n)
     IN /\ loc' = [loc EXCEPT
             ![r].fetched = fetched,
             ![r].select_query = SubSeq(l.select_query, n + 1, Len(l.select_query))]
        /\ pc' = [pc EXCEPT ![r] = IF fetched = <<>> THEN "stage" ELSE "update_row"]
  /\ ops' = [ops EXCEPT ![r] = Append(@, Op("fetchmany", TRUE))]
  /\ UNCHANGED <<db, db0, args, ret, report>>

\* a fetch of all the rows the cursor has left
update_rows_fetchmany_all(r) ==
  /\ pc[r] = "fetchmany"
  /\ LET l == loc[r]
         fetched == l.select_query
     IN /\ loc' = [loc EXCEPT
             ![r].fetched = fetched,
             ![r].select_query = <<>>,
             ![r].rows_to_send = <<>>]
        /\ pc' = [pc EXCEPT ![r] = IF fetched = <<>> THEN "stage" ELSE "update_row"]
  /\ ops' = [ops EXCEPT ![r] = Append(@, Op("fetchmany", TRUE))]
  /\ UNCHANGED <<db, db0, args, ret, report>>

\* lines 245-251: the next loop iteration fetches up to batch_size rows
update_rows_fetchmany(r) ==
  /\ pc[r] = "fetchmany"
  /\ LET l == loc[r]
         n == Min(l.batch_size, Len(l.select_query))
         fetched == SubSeq(l.select_query, 1, n)
     IN /\ loc' = [loc EXCEPT
             ![r].fetched = fetched,
             ![r].select_query = SubSeq(l.select_query, n + 1, Len(l.select_query)),
             ![r].rows_to_send = <<>>]
        /\ pc' = [pc EXCEPT ![r] = IF fetched = <<>> THEN "stage" ELSE "update_row"]
  /\ ops' = [ops EXCEPT ![r] = Append(@, Op("fetchmany", TRUE))]
  /\ UNCHANGED <<db, db0, args, ret, report>>

\* lines 251-252: update_row is applied to the next fetched row
update_rows_update_row(r) ==
  /\ pc[r] = "update_row"
  /\ loc[r].fetched # <<>>
  /\ LET l == loc[r]
         row == Head(l.fetched)
         rest == Tail(l.fetched)
     IN \E out \in update_row_returns(args[r], row) :
          /\ ret' = [ret EXCEPT ![r] = Append(@, [row |-> row, out |-> out])]
          /\ IF out.kind = "raise"
             THEN /\ loc' = [loc EXCEPT ![r].exc = "TransformError"]
                  /\ pc' = [pc EXCEPT ![r] = "finally"]
             ELSE /\ loc' = [loc EXCEPT
                       ![r].fetched = rest,
                       ![r].rows_to_send =
                          IF out.kind = "None" THEN @ ELSE Append(@, out.row)]
                  /\ pc' = [pc EXCEPT ![r] = IF rest = <<>> THEN "stage" ELSE "update_row"]
  /\ UNCHANGED <<db, db0, args, ops, report>>

\* a loop that ends after its first batch
loop_next_once(l) == "get_table_count"

\* where the for loop goes after the batch at offset
loop_next(l) ==
  IF l.offset + l.batch_size < l.table_count THEN "fetchmany" ELSE "get_table_count"

\* a batch check that stages empty batches too
no_rows_to_send_never(rows_to_send) == FALSE

\* line 254: if not rows_to_send
no_rows_to_send(rows_to_send) == rows_to_send = <<>>

\* lines 254-262: skip an empty batch, append to the staging table, or
\* create it
update_rows_stage(r) ==
  /\ pc[r] = "stage"
  /\ LET l == loc[r]
         a == args[r]
         tmp == tmp_table_name(a.table_name)
         table == table_in(db0, EngineDb(a.engine), a.table_name)
         continue == [loc EXCEPT ![r].offset = l.offset + l.batch_size]
     IN IF no_rows_to_send(l.rows_to_send)
        THEN /\ loc' = continue
             /\ pc' = [pc EXCEPT ![r] = loop_next(l)]
             /\ UNCHANGED <<db, ops>>
        ELSE \E end \in (IF l.table_created
                         THEN insert_into(tmp, l.rows_to_send, column_names(r), FALSE, a.engine)
                         ELSE select_into(tmp, l.rows_to_send, column_names(r),
                                          col_types(table, column_names(r)), FALSE,
                                          a.engine)) :
               /\ db' = end.db
               /\ ops' = [ops EXCEPT ![r] = Append(@,
                            Op(IF l.table_created THEN "insert_into" ELSE "select_into",
                               end.exc = "none"))]
               /\ IF end.exc = "none"
                  THEN /\ loc' = [continue EXCEPT ![r].table_created = TRUE,
                                                  ![r].sql = end.sql]
                       /\ pc' = [pc EXCEPT ![r] = loop_next(l)]
                  ELSE /\ loc' = [loc EXCEPT ![r].exc = end.exc, ![r].sql = end.sql]
                       /\ pc' = [pc EXCEPT ![r] = "finally"]
  /\ UNCHANGED <<db0, args, ret, report>>

\* lines 264-272: count the staged rows and report
update_rows_get_table_count(r) ==
  /\ pc[r] = "get_table_count"
  /\ LET l == loc[r]
         a == args[r]
         tmp == get_table("default", tmp_table_name(a.table_name))
     IN IF ~l.table_created
        THEN /\ loc' = [loc EXCEPT ![r].update_count = 0]
             /\ report' = [report EXCEPT ![r] = Append(@, "no rows to update")]
             /\ pc' = [pc EXCEPT ![r] = "finally"]
             /\ ops' = ops
        ELSE IF ~tmp.exists
        THEN /\ loc' = [loc EXCEPT ![r].exc = "ValueError"]
             /\ report' = report
             /\ pc' = [pc EXCEPT ![r] = "finally"]
             /\ ops' = [ops EXCEPT ![r] = Append(@, Op("get_table_count", FALSE))]
        ELSE LET update_count == get_table_count(tmp)
             IN /\ loc' = [loc EXCEPT ![r].update_count = update_count]
                /\ ops' = [ops EXCEPT ![r] = Append(@, Op("get_table_count", TRUE))]
                /\ report' = [report EXCEPT ![r] = Append(@,
                     IF update_count = 0 THEN "no rows to update"
                     ELSE IF update_count = l.table_count THEN "applying changes to all rows"
                     ELSE "applying changes to only some rows")]
                /\ pc' = [pc EXCEPT ![r] = IF update_count = 0 THEN "finally" ELSE "update_from"]
  /\ UNCHANGED <<db, db0, args, ret>>

\* line 274: merge the staging table into the target
update_rows_update_from(r) ==
  /\ pc[r] = "update_from"
  /\ LET a == args[r]
         d == EngineDb(a.engine)
     IN \E end \in update_from(d, tmp_table_name(a.table_name), a.table_name,
                               a.join_columns, a.target_columns) :
          /\ db' = [db EXCEPT ![d][a.table_name].rows = end.rows]
          /\ loc' = [loc EXCEPT ![r].exc = end.exc, ![r].written = end.written,
                                   ![r].update_cols = end.update_cols,
                                   ![r].ignore_cols = end.ignore_cols]
          /\ ops' = [ops EXCEPT ![r] = Append(@, Op("update_from", end.exc = "none"))]
  /\ pc' = [pc EXCEPT ![r] = "finally"]
  /\ UNCHANGED <<db0, args, ret, report>>

\* the cleanup as the last statement of the try block, not in a finally
update_rows_finally_after_try(r) ==
  /\ pc[r] = "finally"
  /\ db' = IF loc[r].exc = "none" THEN drop_table(tmp_table_name(args[r].table_name)) ELSE db
  /\ ops' = [ops EXCEPT ![r] = IF loc[r].exc = "none" THEN Append(@, Op("drop_table", TRUE)) ELSE @]
  /\ pc' = [pc EXCEPT ![r] = IF loc[r].exc = "none" THEN "returned" ELSE "raised"]
  /\ UNCHANGED <<db0, args, loc, ret, report>>

\* lines 275-276: drop the staging table, then return or re-raise
update_rows_finally(r) ==
  /\ pc[r] = "finally"
  /\ db' = drop_table(tmp_table_name(args[r].table_name))
  /\ ops' = [ops EXCEPT ![r] = Append(@, Op("drop_table", TRUE))]
  /\ pc' = [pc EXCEPT ![r] = IF loc[r].exc = "none" THEN "returned" ELSE "raised"]
  /\ UNCHANGED <<db0, args, loc, ret, report>>

(***************************************************************************)
(* One call of update_rows with the default engine                         *)
(***************************************************************************)
\* the target table: n rows with distinct join values, NULL and non-NULL
\* target values alternating
InitialTables ==
  {Table(<<"k", "v", "u">>, {},
         [i \in 1..n |-> [k |-> i, v |-> IF (i + p) % 2 = 0 THEN NULL ELSE 1, u |-> MaxVal]]) :
     n \in 0..MaxRows, p \in 0..1}

\* nothing, or a staging table somebody left behind
LeftOver == {Absent, Table(<<"k", "v">>, {}, <<[k |-> 1, v |-> MaxVal]>>)}

UpdateRowsArgs ==
  [table_name : {"t", "nope"},
   join_columns : {<<"k">>, <<>>, <<"nope">>, <<"k", "nope">>},
   target_columns : {<<"v">>, <<>>, <<"nope">>, <<"v", "nope">>},
   update_row : {"function", "None", "type", "notcallable"},
   batch_size : -1..MaxRows,
   engine : {"None"},
   returns : {"same length"}]

Init ==
  /\ \E t \in InitialTables, tmp \in LeftOver :
       db = [d \in Databases |->
               IF d = "default" THEN [n \in TableNames |-> IF n = "t" THEN t ELSE tmp]
               ELSE [n \in TableNames |-> Absent]]
  /\ db0 = db
  /\ \E a \in UpdateRowsArgs : args = [r \in Runs |-> a]
  /\ pc = [r \in Runs |-> IF r = 1 THEN "call" ELSE "idle"]
  /\ loc = [r \in Runs |-> NoLocals]
  /\ ret = [r \in Runs |-> <<>>]
  /\ ops = [r \in Runs |-> <<>>]
  /\ report = [r \in Runs |-> <<>>]

Next ==
  \E r \in Runs :
    \/ update_rows_validate(r)
    \/ update_rows_count(r)
    \/ update_rows_select(r)
    \/ update_rows_fetchmany(r)
    \/ update_rows_update_row(r)
    \/ update_rows_stage(r)
    \/ update_rows_get_table_count(r)
    \/ update_rows_update_from(r)
    \/ update_rows_finally(r)

Spec == Init /\ [][Next]_vars

(***************************************************************************)
(* Properties of update_rows                                               *)
(***************************************************************************)
\* the target table and the staging table of call r, now and before the call
Target(r) == table_in(db, EngineDb(args[r].engine), args[r].table_name)
Target0(r) == table_in(db0, EngineDb(args[r].engine), args[r].table_name)
Staging(r) == table_in(db, EngineDb(args[r].engine), tmp_table_name(args[r].table_name))
Staging0(r) == table_in(db0, EngineDb(args[r].engine), tmp_table_name(args[r].table_name))

Did(r, name, ok) == \E i \in 1..Len(ops[r]) : ops[r][i] = Op(name, ok)
Tried(r, name) == Did(r, name, TRUE) \/ Did(r, name, FALSE)

\* update_row raised on its latest call
TransformRaised(r) == ret[r] # <<>> /\ ret[r][Len(ret[r])].out.kind = "raise"

\* the rows update_row returned, in cursor order
Replaced(r) ==
  LET kept == SelectSeq(ret[r], LAMBDA e : e.out.kind = "row")
  IN [i \in 1..Len(kept) |-> kept[i].out.row]

\* every replacement row has the join value of the row it replaces
JoinUnchanged(r) ==
  \A i \in 1..Len(ret[r]) : ret[r][i].out.kind = "row" => ret[r][i].out.row[1] = ret[r][i].row[1]

\* C1: when update_row raises, on whichever batch, the run goes straight to
\* its cleanup and re-raises; once it has, no staging table exists and the
\* target table holds the rows it held before the call
C1_TransformRaisePropagates ==
  \A r \in Runs :
    TransformRaised(r) =>
      /\ pc[r] \in {"finally", "raised"}
      /\ loc[r].exc = "TransformError"
      /\ Target(r) = Target0(r)
      /\ pc[r] = "raised" => ~Staging(r).exists

\* update_row raised on the second of three batches, after the first batch
\* had created the staging table
C1_Witness ==
  /\ pc[1] = "raised"
  /\ TransformRaised(1)
  /\ loc[1].batch_size = 1
  /\ loc[1].table_count = 3
  /\ Len(ret[1]) = 2
  /\ Did(1, "select_into", TRUE)

\* C2 as stated: whenever the call returns normally no staging table exists
C2_NoStagingOnReturn ==
  \A r \in Runs : pc[r] = "returned" => ~Staging(r).exists

\* C2 amended: when the call returns normally a staging table exists only
\* if the target table was empty and the staging table was there before the
\* call, and then it is that same table; the call on an empty target
\* returns before the cleanup
C2_NoStagingUnlessEmptyTarget ==
  \A r \in Runs :
    pc[r] = "returned" =>
      /\ Staging(r).exists <=> (Len(Target0(r).rows) = 0 /\ Staging0(r).exists)
      /\ Staging(r).exists => Staging(r) = Staging0(r)

\* a run that staged rows and merged them has returned
C2_Witness ==
  /\ pc[1] = "returned"
  /\ Did(1, "select_into", TRUE)
  /\ Did(1, "insert_into", TRUE)
  /\ Did(1, "update_from", TRUE)

\* C3: when the merge fails the run goes to its cleanup with the target
\* table as it was before the call, and the failure reaches the caller only
\* once the staging table is gone
C3_MergeFailure ==
  \A r \in Runs :
    Did(r, "update_from", FALSE) =>
      /\ pc[r] \in {"finally", "raised"}
      /\ loc[r].exc # "none"
      /\ Target(r) = Target0(r)
      /\ pc[r] = "raised" => ~Staging(r).exists /\ Did(r, "drop_table", TRUE)

\* the merge of two staged batches failed and the call has raised
C3_Witness ==
  /\ pc[1] = "raised"
  /\ Did(1, "update_from", FALSE)
  /\ Did(1, "insert_into", TRUE)

C5_ReplacedRowsWritten ==
  \A r \in Runs :
    (pc[r] = "returned" /\ JoinUnchanged(r)) =>
      \A i \in 1..Len(ret[r]) :
        ret[r][i].out.kind = "row" =>
          /\ Target(r).rows[i].v = ret[r][i].out.row[2]
          /\ Target(r).rows[i].k = Target0(r).rows[i].k
          /\ Target(r).rows[i].u = Target0(r).rows[i].u

\* a run has set a NULL to a value and a value to NULL
C5_Witness ==
  /\ pc[1] = "returned"
  /\ JoinUnchanged(1)
  /\ \E i, j \in 1..Len(Target(1).rows) :
       /\ Target0(1).rows[i].v = NULL /\ Target(1).rows[i].v # NULL
       /\ Target0(1).rows[j].v # NULL /\ Target(1).rows[j].v = NULL

\* what one merge of all replacement rows, staged in cursor order, can
\* leave in the target table: a set that does not depend on batch_size
MergedOnce(r) ==
  LET names == column_names(r)
      staged == Table(names, {}, values_rows(names, Replaced(r)))
  IN {u.rows : u \in update_results(staged, Target0(r), args[r].join_columns,
                                    args[r].target_columns)}

\* the replacement rows have pairwise distinct join values
DistinctJoinValues(r) ==
  \A i, j \in 1..Len(Replaced(r)) : Replaced(r)[i][1] = Replaced(r)[j][1] => i = j

\* C6: whatever the batch size, the run leaves the target table as one
\* merge of all replacement rows would, which is a single outcome when the
\* replacement rows have distinct join values
C6_BatchSizeIndependence ==
  \A r \in Runs :
    pc[r] = "returned" =>
      /\ Target(r).rows \in MergedOnce(r)
      /\ DistinctJoinValues(r) => MergedOnce(r) = {Target(r).rows}

\* a run in batches of one row has staged two batches and merged them
C6_Witness ==
  /\ pc[1] = "returned"
  /\ args[1].batch_size = 1
  /\ Did(1, "insert_into", TRUE)
  /\ Did(1, "update_from", TRUE)
  /\ Target(1) # Target0(1)

\* the arguments update_rows rejects: a missing table, an empty or unknown
\* join or target column, an update_row that is not a function, a zero
\* batch size
Rejected(a) ==
  \/ a.table_name \notin {n \in TableNames : db0[EngineDb(a.engine)][n].exists}
  \/ a.join_columns = <<>> \/ "nope" \in Range(a.join_columns)
  \/ a.target_columns = <<>> \/ "nope" \in Range(a.target_columns)
  \/ a.update_row \in {"None", "type", "notcallable"}
  \/ a.batch_size = 0

\* C7: a call with a rejected argument never gets past its validation: it
\* counts, fetches and transforms nothing, leaves the database as it was,
\* and ends by raising ValueError
C7_ValidationFirst ==
  \A r \in Runs :
    (pc[r] # "idle" /\ Rejected(args[r])) =>
      /\ pc[r] \in {"call", "raised"}
      /\ ops[r] = <<>> /\ ret[r] = <<>>
      /\ db = db0
      /\ pc[r] = "raised" => loc[r].exc = "ValueError"

\* a call whose only fault is a zero batch size has raised
C7_Witness ==
  /\ pc[1] = "raised"
  /\ args[1].batch_size = 0
  /\ args[1].table_name = "t" /\ args[1].update_row = "function"
  /\ args[1].join_columns = <<"k">> /\ args[1].target_columns = <<"v">>
  /\ Len(Target(1).rows) > 0

\* C8: a valid call on an empty target table ends right after the count:
\* no cursor, no call of update_row, no staging table, the database as it
\* was, and one report, "no rows to update"
C8_EmptyTable ==
  \A r \in Runs :
    (pc[r] # "idle" /\ ~Rejected(args[r]) /\ Len(Target0(r).rows) = 0) =>
      /\ pc[r] \in {"call", "count", "returned"}
      /\ ret[r] = <<>>
      /\ db = db0
      /\ pc[r] = "returned" =>
           /\ ops[r] = <<Op("get_table_count", TRUE)>>
           /\ report[r] = <<"no rows to update">>

\* a call on an empty target table has returned
C8_Witness ==
  /\ pc[1] = "returned"
  /\ Len(Target0(1).rows) = 0
  /\ Target0(1).exists

\* C9: on a non-empty table, as long as update_row has returned None for
\* every row so far no staging operation and no merge has happened and the
\* target is unchanged; when the run ends that way it returns with the one
\* report "no rows to update"
C9_AllSkipped ==
  \A r \in Runs :
    (/\ loc[r].table_count > 0
     /\ \A i \in 1..Len(ret[r]) : ret[r][i].out.kind = "None") =>
      /\ ~Tried(r, "select_into") /\ ~Tried(r, "insert_into") /\ ~Tried(r, "update_from")
      /\ ~loc[r].table_created
      /\ Staging(r).exists => Staging(r) = Staging0(r)
      /\ Target(r) = Target0(r)
      /\ pc[r] # "raised"
      /\ pc[r] = "returned" => report[r] = <<"no rows to update">>

\* update_row returned None for all three rows and the call has returned
C9_Witness ==
  /\ pc[1] = "returned"
  /\ Len(ret[1]) = 3
  /\ \A i \in 1..Len(ret[1]) : ret[1][i].out.kind = "None"

(***************************************************************************)
(* One direct call of update_from                                          *)
(***************************************************************************)
\* update_from("tmp_t", "t", join_columns, target_columns) called directly
update_from_call(r) ==
  /\ pc[r] = "call_update_from"
  /\ LET a == args[r]
         d == EngineDb(a.engine)
     IN \E end \in update_from(d, a.table_name, a.into_table_name,
                               a.join_columns, a.target_columns) :
          /\ db' = [db EXCEPT ![d][a.into_table_name].rows = end.rows]
          /\ loc' = [loc EXCEPT ![r].exc = end.exc, ![r].written = end.written,
                                   ![r].update_cols = end.update_cols,
                                   ![r].ignore_cols = end.ignore_cols]
          /\ ops' = [ops EXCEPT ![r] = IF end.sql THEN Append(@, Op("update", end.exc = "none"))
                                       ELSE @]
          /\ report' = [report EXCEPT ![r] = IF end.warn = "none" THEN @ ELSE Append(@, end.warn)]
          /\ pc' = [pc EXCEPT ![r] = IF end.exc = "none" THEN "returned" ELSE "raised"]
  /\ UNCHANGED <<db0, args, ret>>

\* tables are taken up to the order of their rows, and without rows that
\* are equal in every column
RowCode(row) == (row.k * (MaxVal + 1) + row.v) * (MaxVal + 1) + row.g
Ordered(rows) == \A i \in 1..(Len(rows) - 1) : RowCode(rows[i]) < RowCode(rows[i + 1])

\* source tables: join column k, ordinary column v, Geometry column g
FromTables ==
  {Table(<<"k", "v", "g">>, {"g"}, rows) :
     rows \in {s \in UNION {[1..n -> [k : {NULL, 1}, v : {NULL, 1, MaxVal}, g : {NULL, MaxVal}]] : n \in 0..MaxFromRows} :
                 Ordered(s)}}

\* target tables: the same columns and a column u the source lacks
IntoTables ==
  {Table(<<"k", "v", "g", "u">>, {"g"}, [i \in 1..Len(rows) |-> rows[i] @@ [u |-> MaxVal]]) :
     rows \in {s \in UNION {[1..n -> [k : {NULL, 1}, v : {NULL, 1}, g : {NULL, 1}]] : n \in 1..MaxIntoRows} :
                 Ordered(s)}}

UpdateFromArgs ==
  [table_name : {"tmp_t"}, into_table_name : {"t"},
   join_columns : {<<"k">>},
   target_columns : {None, <<"*">>, <<"v">>, <<"g">>, <<"k", "v">>, <<"k">>,
                     <<"nope">>, <<"v", "nope">>},
   engine : {"None"}]
  \cup
  [table_name : {"tmp_t"}, into_table_name : {"t"},
   join_columns : {<<"nope">>},
   target_columns : {None, <<"nope">>},
   engine : {"None"}]

InitUpdateFrom ==
  /\ \E f \in FromTables, t \in IntoTables :
       db = [d \in Databases |->
               IF d = "default" THEN [n \in TableNames |-> IF n = "t" THEN t ELSE f]
               ELSE [n \in TableNames |-> Absent]]
  /\ db0 = db
  /\ \E a \in UpdateFromArgs : args = [r \in Runs |-> a]
  /\ pc = [r \in Runs |-> IF r = 1 THEN "call_update_from" ELSE "idle"]
  /\ loc = [r \in Runs |-> NoLocals]
  /\ ret = [r \in Runs |-> <<>>]
  /\ ops = [r \in Runs |-> <<>>]
  /\ report = [r \in Runs |-> <<>>]

NextUpdateFrom == \E r \in Runs : update_from_call(r)

SpecUpdateFrom == InitUpdateFrom /\ [][NextUpdateFrom]_vars

\* the tables of a direct update_from call, now and before it
From0(r) == table_in(db0, EngineDb(args[r].engine), args[r].table_name)
Into0(r) == table_in(db0, EngineDb(args[r].engine), args[r].into_table_name)
Into(r) == table_in(db, EngineDb(args[r].engine), args[r].into_table_name)

\* the columns the call was asked to update: the requested ones the source
\* has, less the join columns
UpdateColumns(r) ==
  {c \in Range(From0(r).cols) :
     /\ c \notin Range(args[r].join_columns)
     /\ \/ args[r].target_columns = None
        \/ "*" \in Range(args[r].target_columns)
        \/ c \in Range(args[r].target_columns)}

\* source row s equals target row t on every join column
JoinEqual(r, s, t) == \A c \in Range(args[r].join_columns) : s[c] # NULL /\ s[c] = t[c]

\* some update column differs between s and t, NULL equal to NULL only
SomeColumnDiffers(r, s, t) == \E c \in UpdateColumns(r) : s[c] # t[c]

\* C10 (the claim as stated): update_from writes a target row exactly when
\* a source row equals it on the join columns and differs from it in some
\* update column, and a written row then holds that source row's values
C10_WrittenIffMatchedAndDiffers ==
  \A r \in Runs :
    (pc[r] = "returned" /\ Did(r, "update", TRUE)) =>
      \A i \in 1..Len(Into0(r).rows) :
        LET t == Into0(r).rows[i]
            S == {j \in 1..Len(From0(r).rows) :
                    JoinEqual(r, From0(r).rows[j], t)
                    /\ SomeColumnDiffers(r, From0(r).rows[j], t)}
        IN /\ i \in loc[r].written <=> S # {}
           /\ i \in loc[r].written =>
                \E j \in S : \A c \in UpdateColumns(r) : Into(r).rows[i][c] = From0(r).rows[j][c]
           /\ i \notin loc[r].written => Into(r).rows[i] = t

\* C11 (the claim as stated): for every source row and target row equal on
\* the join columns, the change predicate of the call is true exactly when some update column
\* differs between them, NULL equal to NULL and different from any value,
\* Geometry columns included
C11_ChangePredicateIffDiffers ==
  \A r \in Runs :
    (pc[r] = "returned" /\ Did(r, "update", TRUE)) =>
      \A i \in 1..Len(From0(r).rows), j \in 1..Len(Into0(r).rows) :
        LET s == From0(r).rows[i]
            t == Into0(r).rows[j]
        IN JoinEqual(r, s, t) =>
             ((skip_where(From0(r), loc[r].update_cols, s, t) = "true")
                <=> SomeColumnDiffers(r, s, t))

\* the join columns of the call exist on both tables
JoinColumnsValid(r) ==
  /\ validate_columns_in(From0(r), args[r].join_columns)
  /\ validate_columns_in(Into0(r), args[r].join_columns)

\* C12: however a direct update_from call ends, the columns it assigned
\* include no join column, and every target row has the join-column values
\* it had before the call
C12_JoinColumnsNeverAssigned ==
  \A r \in Runs :
    pc[r] \in {"returned", "raised"} =>
      /\ Range(loc[r].update_cols) \cap Range(args[r].join_columns) = {}
      /\ Len(Into(r).rows) = Len(Into0(r).rows)
      /\ \A i \in 1..Len(Into0(r).rows) :
           \A c \in Range(args[r].join_columns) \cap Range(Into0(r).cols) :
             Into(r).rows[i][c] = Into0(r).rows[i][c]

\* a call that listed the join column among its target columns has
\* written a row
C12_Witness ==
  /\ pc[1] = "returned"
  /\ args[1].target_columns = <<"k", "v">>
  /\ Did(1, "update", TRUE)
  /\ loc[1].written # {}

\* C13: a direct update_from call whose join columns are valid and whose
\* requested columns, restricted to the source's and less the join
\* columns, are none returns with the "nothing to update" warning, having
\* executed no UPDATE and left the target table as it was
C13_NothingToUpdate ==
  \A r \in Runs :
    (pc[r] \in {"returned", "raised"} /\ JoinColumnsValid(r) /\ UpdateColumns(r) = {}) =>
      /\ pc[r] = "returned"
      /\ ~Tried(r, "update")
      /\ report[r] = <<"no columns to update">>
      /\ Into(r) = Into0(r)

\* a call asked to update only its join column has returned, the source
\* holding a row that differs from a target row with the same join value
C13_Witness ==
  /\ pc[1] = "returned"
  /\ args[1].target_columns = <<"k">>
  /\ report[1] = <<"no columns to update">>
  /\ \E i \in 1..Len(From0(1).rows), j \in 1..Len(Into0(1).rows) :
       /\ From0(1).rows[i].k = Into0(1).rows[j].k
       /\ From0(1).rows[i].k # NULL
       /\ From0(1).rows[i].v # Into0(1).rows[j].v

\* the call names target columns and one of them is not on the source
SomeTargetColumnAbsent(r) ==
  /\ args[r].target_columns # None
  /\ "*" \notin Range(args[r].target_columns)
  /\ \E c \in Range(args[r].target_columns) : c \notin Range(From0(r).cols)

\* C14: a direct update_from call with valid join columns and a target
\* column the source lacks is not rejected; it assigns exactly the requested
\* columns the source has, less the join columns, leaves every other column
\* of every target row unchanged, and logs a warning, which names the
\* ignored columns whenever a column is left to update
C14_AbsentTargetColumnsIgnored ==
  \A r \in Runs :
    (pc[r] \in {"returned", "raised"} /\ JoinColumnsValid(r) /\ SomeTargetColumnAbsent(r)) =>
      /\ loc[r].exc \in {"none", "DBError"}
      /\ Range(loc[r].update_cols) = UpdateColumns(r)
      /\ report[r] # <<>>
      /\ UpdateColumns(r) # {} =>
           /\ report[r] = <<"ignoring columns">>
           /\ Range(loc[r].ignore_cols) = Range(args[r].target_columns) \ UpdateColumns(r)
      /\ \A i \in 1..Len(Into0(r).rows) :
           /\ \A c \in Range(Into0(r).cols) \ UpdateColumns(r) :
                Into(r).rows[i][c] = Into0(r).rows[i][c]
           /\ i \in loc[r].written =>
                \E j \in 1..Len(From0(r).rows) :
                  \A c \in UpdateColumns(r) : Into(r).rows[i][c] = From0(r).rows[j][c]
           /\ i \notin loc[r].written => Into(r).rows[i] = Into0(r).rows[i]

\* a call asked for a column of the source and an absent one has written
\* a row
C14_Witness ==
  /\ pc[1] = "returned"
  /\ args[1].target_columns = <<"v", "nope">>
  /\ loc[1].ignore_cols = <<"nope">>
  /\ loc[1].written # {}

\* a call of update_rows whose only fault is a target column the table
\* lacks, next to one it has
OnlyTargetColumnAbsent(r) ==
  /\ pc[r] # "idle"
  /\ Target0(r).exists
  /\ validate_columns_in(Target0(r), args[r].join_columns)
  /\ args[r].target_columns = <<"v", "nope">>
  /\ args[r].update_row = "function"
  /\ args[r].batch_size # 0

\* C15 (the claim as stated): update_rows called with a target column the
\* table lacks does not fail on it
C15_AbsentTargetColumnProceeds ==
  \A r \in Runs :
    OnlyTargetColumnAbsent(r) => ~(pc[r] = "raised" /\ loc[r].exc = "ValueError")

\* C15 amended: update_rows called with a target column the table lacks
\* raises ValueError from its validation, having counted, read, transformed
\* and staged nothing, and leaves the database as it was
C15_AbsentTargetColumnRejected ==
  \A r \in Runs :
    OnlyTargetColumnAbsent(r) =>
      /\ pc[r] \in {"call", "raised"}
      /\ pc[r] = "raised" => loc[r].exc = "ValueError"
      /\ ~Tried(r, "get_table_count") /\ ~Tried(r, "select_into") /\ ~Tried(r, "update_from")
      /\ ret[r] = <<>> /\ report[r] = <<>>
      /\ db = db0

\* such a call on a table with rows has raised
C15_Witness ==
  /\ OnlyTargetColumnAbsent(1)
  /\ pc[1] = "raised"
  /\ Len(Target0(1).rows) > 0

(***************************************************************************)
(* Two calls of update_rows on the same table, running concurrently        *)
(***************************************************************************)
\* both runs are called with the same valid arguments; each statement a
\* run sends is one step, and the steps of the two runs interleave freely
InitConcurrent ==
  /\ \E n \in 1..MaxConcurrentRows :
       db = [d \in Databases |->
               IF d = "default"
               THEN [t |-> Table(<<"k", "v", "u">>, {},
                                 [i \in 1..n |-> [k |-> i, v |-> 1, u |-> MaxVal]]),
                     tmp_t |-> Absent]
               ELSE [n2 \in TableNames |-> Absent]]
  /\ db0 = db
  /\ \E b \in {-1, 1} :
       args = [r \in Runs |->
                 [table_name |-> "t", join_columns |-> <<"k">>, target_columns |-> <<"v">>,
                  update_row |-> "function", batch_size |-> b, engine |-> "None",
                  returns |-> "same length"]]
  /\ pc = [r \in Runs |-> "call"]
  /\ loc = [r \in Runs |-> NoLocals]
  /\ ret = [r \in Runs |-> <<>>]
  /\ ops = [r \in Runs |-> <<>>]
  /\ report = [r \in Runs |-> <<>>]

SpecConcurrent == InitConcurrent /\ [][Next]_vars

\* the next step of run r, whichever it is
RunStep(r) ==
  \/ update_rows_validate(r) \/ update_rows_count(r) \/ update_rows_select(r)
  \/ update_rows_fetchmany(r) \/ update_rows_update_row(r) \/ update_rows_stage(r)
  \/ update_rows_get_table_count(r) \/ update_rows_update_from(r)
  \/ update_rows_finally(r)

\* run r has created the staging table and not yet reached its cleanup
Staged(r) ==
  /\ loc[r].table_created
  /\ pc[r] \in {"fetchmany", "update_row", "stage", "get_table_count", "update_from"}

C17_StagingConflict ==
  \A r \in Runs :
    (Staging0(r).exists /\ Tried(r, "select_into")) =>
      /\ Did(r, "select_into", FALSE)
      /\ loc[r].exc = "ValueError"
      /\ pc[r] \in {"finally", "raised"}
      /\ ~Tried(r, "insert_into") /\ ~Tried(r, "update_from")
      /\ Staging(r).exists => Staging(r) = Staging0(r)
      /\ Target(r) = Target0(r)

\* a run in batches of one row skipped its first row, was refused the
\* staging table for its second, and has raised
C17_Witness ==
  /\ pc[1] = "raised"
  /\ Staging0(1).exists
  /\ Did(1, "select_into", FALSE)
  /\ args[1].batch_size = 1
  /\ Len(ret[1]) = 2 /\ ret[1][1].out.kind = "None"

(***************************************************************************)
(* types.py and the VALUES compiler: Python values and their texts         *)
(***************************************************************************)
\* the classes COLUMN_TYPE_MAP maps to
ColumnTypes ==
  {"Boolean", "BigInteger", "LargeBinary", "Geometry", "Geography", "Integer",
   "Float", "Date", "DateTime", "Numeric", "JSON", "JSONB", "Raster", "UnicodeText"}

\* issubclass(type_, cls) for the classes _compile_value tests
issubclass(type_, cls) ==
  CASE cls = "Date" -> type_ = "Date"
    [] cls = "DateTime" -> type_ = "DateTime"
    [] cls = "JSON" -> type_ \in {"JSON", "JSONB"}
    [] cls = "String" -> type_ = "UnicodeText"
    [] cls = "Numeric" -> type_ \in {"Numeric", "Float"}
    [] OTHER -> type_ = cls

\* Python values: None, datetime.date, datetime.datetime, str, int, float,
\* bool, and dicts and lists of ints, strs and Nones
PyNone == [t |-> "NoneType"]
PyDate(d) == [t |-> "date", d |-> d]
PyDateTime(d, h) == [t |-> "datetime", d |-> d, h |-> h]
PyStr(x) == [t |-> "str", s |-> x]
PyInt(n) == [t |-> "int", n |-> n]
PyList(items) == [t |-> "list", items |-> items]
PyDict(items) == [t |-> "dict", items |-> items]

\* the texts of a sequence joined by ", "
RECURSIVE join(_)
join(texts) ==
  IF texts = <<>> THEN ""
  ELSE IF Len(texts) = 1 THEN texts[1]
  ELSE texts[1] \o ", " \o join(Tail(texts))

\* settings.date_format "%Y-%m-%d" and settings.timestamp_format
\* "%Y-%m-%d %H:%M:%S"
DATE_FORMAT == "%Y-%m-%d"
DATETIME_FORMAT == "%Y-%m-%d %H:%M:%S"

\* datetime.datetime.strftime(value, str_format) of a date or a datetime; a
\* date has no time of day and formats it as midnight
strftime(value, str_format) ==
  LET day == "2020-01-0" \o ToString(value.d)
      hour == IF value.t = "datetime" THEN value.h ELSE 0
  IN IF str_format = DATE_FORMAT THEN day
     ELSE day \o " 0" \o ToString(hour) \o ":00:00"

\* repr() of an item of a list or dict
RECURSIVE repr(_)
\* str(value)
RECURSIVE str(_)
repr(value) == IF value.t = "str" THEN "'" \o value.s \o "'" ELSE str(value)

str(value) ==
  CASE value.t = "NoneType" -> "None"
    [] value.t = "date" -> strftime(value, DATE_FORMAT)
    [] value.t = "datetime" -> strftime(value, DATETIME_FORMAT)
    [] value.t = "str" -> value.s
    [] value.t = "int" -> ToString(value.n)
    [] value.t = "float" -> value.s
    [] value.t = "list" ->
         "[" \o join([i \in 1..Len(value.items) |-> repr(value.items[i])]) \o "]"
    [] value.t = "dict" ->
         "{" \o join([i \in 1..Len(value.items) |->
                        repr(PyStr(value.items[i][1])) \o ": " \o repr(value.items[i][2])])
             \o "}"

\* json.dumps(value)
RECURSIVE json_dumps(_)
json_dumps(value) ==
  CASE value.t = "NoneType" -> "null"
    [] value.t = "str" -> "\"" \o value.s \o "\""
    [] value.t = "int" -> ToString(value.n)
    [] value.t = "list" ->
         "[" \o join([i \in 1..Len(value.items) |-> json_dumps(value.items[i])]) \o "]"
    [] value.t = "dict" ->
         "{" \o join([i \in 1..Len(value.items) |->
                        json_dumps(PyStr(value.items[i][1])) \o ": "
                          \o json_dumps(value.items[i][2])])
             \o "}"

PyFloat(x) == [t |-> "float", s |-> x]

\* the text is a decimal number
IsNumber(x) == x # "" /\ \A i \in 1..Len(x) : SubSeq(x, i, i) \in {ToString(n) : n \in 0..9}

\* float(value): the float, or the exception raised
float(value) ==
  CASE value.t = "int" -> [exc |-> "none", value |-> PyFloat(ToString(value.n) \o ".0")]
    [] value.t = "float" -> [exc |-> "none", value |-> value]
    [] value.t = "str" ->
         IF IsNumber(value.s) THEN [exc |-> "none", value |-> PyFloat(value.s \o ".0")]
         ELSE [exc |-> "ValueError", value |-> value]
    [] OTHER -> [exc |-> "TypeError", value |-> value]

\* a text with every single quote doubled
RECURSIVE escape_quotes(_)
escape_quotes(x) ==
  IF Len(x) = 0 THEN ""
  ELSE (IF SubSeq(x, 1, 1) = "'" THEN "''" ELSE SubSeq(x, 1, 1))
         \o escape_quotes(SubSeq(x, 2, Len(x)))

\* compiler.render_literal_value(value, type_()): a str is quoted with its
\* quotes doubled, any other value is rendered by its type's literal
\* processor from its text
render_literal_value(value, type_) ==
  IF value.t = "str" THEN "'" \o escape_quotes(value.s) \o "'"
  ELSE IF value.t = "float" THEN value.s
  ELSE str(value)

\* DATE_FORMAT_MAP.get(type(value), DATETIME_FORMAT)
str_format_for(value) ==
  IF value.t = "datetime" THEN DATETIME_FORMAT
  ELSE IF value.t = "date" THEN DATE_FORMAT
  ELSE DATETIME_FORMAT

\* DATE_FORMAT_MAP[column_type] without its placeholder: the cast
sql_format_for(column_type) == IF column_type = "DateTime" THEN "timestamp" ELSE "date"

\* a to_date_string that formats by the column type
to_date_string_by_column_type(column_type, value) ==
  LET str_format == IF column_type = "DateTime" THEN DATETIME_FORMAT ELSE DATE_FORMAT
      text == IF value.t \in {"date", "datetime"} THEN strftime(value, str_format)
              ELSE str(value)
  IN "'" \o text \o "'::" \o sql_format_for(column_type)

\* to_date_string(column_type, value)
to_date_string(column_type, value) ==
  LET str_format == str_format_for(value)
      text == IF value.t \in {"date", "datetime"} THEN strftime(value, str_format)
              ELSE str(value)
  IN "'" \o text \o "'::" \o sql_format_for(column_type)

\* to_json_string(column_type, value)
to_json_string(column_type, value) ==
  LET text == IF value.t = "dict" THEN json_dumps(value) ELSE str(value)
  IN "'" \o text \o "'::" \o column_type

\* a test for None that never finds it
is_None_never(value) == FALSE

\* "value is None"
is_None(value) == value = PyNone

\* _compile_value(compiler, value, type_): the literal, or the exception
compile_value(value, type_) ==
  LET end(e, text) == [exc |-> e, text |-> text]
  IN IF is_None(value) THEN end("none", "NULL")
     ELSE IF issubclass(type_, "Date") \/ issubclass(type_, "DateTime")
     THEN end("none", to_date_string(type_, value))
     ELSE IF issubclass(type_, "JSON")
     THEN end("none", to_json_string(type_, value))
     ELSE IF issubclass(type_, "String")
     THEN end("none", render_literal_value(PyStr(str(value)), type_))
     ELSE IF issubclass(type_, "Numeric")
     THEN LET f == float(value)
          IN IF f.exc = "none" THEN end("none", render_literal_value(f.value, type_))
             ELSE end(f.exc, "")
     ELSE end("none", render_literal_value(value, type_))

(***************************************************************************)
(* One value compiled by the VALUES compiler                               *)
(***************************************************************************)
\* _compile_value(compiler, value, type_) called for one value of a tuple
compile_value_call(r) ==
  /\ pc[r] = "call_compile_value"
  /\ LET end == compile_value(args[r].value, args[r].type_)
     IN /\ ret' = [ret EXCEPT ![r] = IF end.exc = "none" THEN <<end.text>> ELSE <<>>]
        /\ loc' = [loc EXCEPT ![r].exc = end.exc]
        /\ pc' = [pc EXCEPT ![r] = IF end.exc = "none" THEN "returned" ELSE "raised"]
  /\ UNCHANGED <<db, db0, args, ops, report>>

DateValues ==
  {PyDate(d) : d \in 1..MaxDay} \cup {PyDateTime(d, h) : d \in 1..MaxDay, h \in 0..MaxDay}

PyValues ==
  {PyNone, PyInt(1)} \cup DateValues
  \cup {PyStr(x) : x \in {"2020-01-01", "2020-01-01 01:00:00", "today", "it's", "1",
                          "{\"a\": 1}"}}
  \cup {PyList(<<>>), PyList(<<PyInt(1), PyInt(2)>>), PyList(<<PyStr("a")>>),
        PyList(<<PyNone>>)}
  \cup {PyDict(<<>>), PyDict(<< <<"a", PyInt(1)>> >>), PyDict(<< <<"a", PyStr("b")>> >>)}

InitCompile ==
  /\ db = [d \in Databases |-> [n \in TableNames |-> Absent]]
  /\ db0 = db
  /\ \E value \in PyValues, type_ \in ColumnTypes :
       args = [r \in Runs |-> [value |-> value, type_ |-> type_]]
  /\ pc = [r \in Runs |-> IF r = 1 THEN "call_compile_value" ELSE "idle"]
  /\ loc = [r \in Runs |-> NoLocals]
  /\ ret = [r \in Runs |-> <<>>]
  /\ ops = [r \in Runs |-> <<>>]
  /\ report = [r \in Runs |-> <<>>]

NextCompile == \E r \in Runs : compile_value_call(r)

SpecCompile == InitCompile /\ [][NextCompile]_vars

\* the call of run r has ended
Compiled(r) == pc[r] \in {"returned", "raised"}

\* C18: whatever the declared column type, None is compiled to the bare
\* text NULL, no date, JSON, str or float conversion being applied to it
C18_NoneIsNull ==
  \A r \in Runs :
    (Compiled(r) /\ args[r].value = PyNone) =>
      pc[r] = "returned" /\ ret[r] = <<"NULL">>

\* None has been compiled for a Date column
C18_Witness ==
  /\ pc[1] = "returned"
  /\ args[1].value = PyNone /\ args[1].type_ = "Date"
  /\ ret[1] = <<"NULL">>

\* C19 (the claim as stated): for a JSON or JSONB column a dict or a list
\* is compiled to its JSON text, quoted and cast to the type, and a str to
\* itself, quoted and cast
C19_StructuredValuesSerialised ==
  \A r \in Runs :
    (Compiled(r) /\ args[r].type_ \in {"JSON", "JSONB"}
       /\ args[r].value.t \in {"dict", "list", "str"}) =>
      /\ pc[r] = "returned"
      /\ ret[r] = <<"'" \o (IF args[r].value.t = "str" THEN args[r].value.s
                            ELSE json_dumps(args[r].value))
                      \o "'::" \o args[r].type_>>

\* the format the declared column type selects
DeclaredFormat(type_) == IF type_ = "DateTime" THEN DATETIME_FORMAT ELSE DATE_FORMAT

\* str x is the text of some date or datetime in format str_format
Parses(x, str_format) == \E v \in DateValues : strftime(v, str_format) = x

\* C20 (the claim as stated): for a Date or DateTime column a date or
\* datetime is formatted with the format of the declared type, any other
\* value is parsed with that format, failing if it cannot be, and the text is
\* quoted and cast to date or timestamp as declared
C20_FormatByDeclaredType ==
  \A r \in Runs :
    (Compiled(r) /\ args[r].type_ \in {"Date", "DateTime"} /\ args[r].value # PyNone) =>
      LET value == args[r].value
          type_ == args[r].type_
          cast == IF type_ = "DateTime" THEN "timestamp" ELSE "date"
      IN IF value.t \in {"date", "datetime"}
         THEN ret[r] = <<"'" \o strftime(value, DeclaredFormat(type_)) \o "'::" \o cast>>
         ELSE IF value.t = "str" /\ Parses(value.s, DeclaredFormat(type_))
         THEN ret[r] = <<"'" \o value.s \o "'::" \o cast>>
         ELSE pc[r] = "raised"

\* C20 amended: for a Date or DateTime column a datetime.date is formatted
\* with the date format and a datetime.datetime with the timestamp format,
\* whichever type is declared; any other value is not parsed but embedded as
\* its str(); the text is quoted and cast to date or timestamp as declared
C20_FormatByValueType ==
  \A r \in Runs :
    (Compiled(r) /\ args[r].type_ \in {"Date", "DateTime"} /\ args[r].value # PyNone) =>
      LET value == args[r].value
          cast == IF args[r].type_ = "DateTime" THEN "timestamp" ELSE "date"
          text == IF value.t = "date" THEN strftime(value, DATE_FORMAT)
                  ELSE IF value.t = "datetime" THEN strftime(value, DATETIME_FORMAT)
                  ELSE str(value)
      IN pc[r] = "returned" /\ ret[r] = <<"'" \o text \o "'::" \o cast>>

\* a datetime.date has been compiled for a DateTime column, with the date
\* format
C20_Witness ==
  /\ pc[1] = "returned"
  /\ args[1].type_ = "DateTime" /\ args[1].value = PyDate(1)
  /\ ret[1] = <<"'2020-01-01'::timestamp">>

(***************************************************************************)
(* Direct calls of sql.Values, sql.select_into and sql.insert_into, and    *)
(* update_rows over typed columns with a transform that returns rows of    *)
(* any length                                                              *)
(***************************************************************************)
\* Values(cols, types, *values) and its compilation in a statement
Values_call(r) ==
  /\ pc[r] = "call_Values"
  /\ LET a == args[r]
         element == Values_init(a.column_names, a.column_types)
         compiled == values_compile(element.types, a.values)
     IN /\ loc' = [loc EXCEPT
                     ![r].exc = IF element.exc # "none" THEN element.exc ELSE compiled,
                     ![r].sql = IF element.exc # "none" THEN "none"
                                ELSE IF compiled # "none" THEN "compiling" ELSE "built",
                     ![r].types = element.types]
        /\ ops' = [ops EXCEPT ![r] = Append(@, Op("Values", element.exc = "none"))]
  /\ pc' = [pc EXCEPT ![r] = "done"]
  /\ UNCHANGED <<db, db0, args, ret, report>>

select_into_call(r) ==
  /\ pc[r] = "call_select_into"
  /\ LET a == args[r]
     IN \E end \in select_into(a.table_name, a.values, a.column_names, a.column_types,
                               a.inspect, a.engine) :
          /\ db' = end.db
          /\ loc' = [loc EXCEPT ![r].exc = end.exc, ![r].sql = end.sql,
                                ![r].types = end.types]
          /\ ops' = [ops EXCEPT ![r] = Append(@, Op("select_into", end.exc = "none"))]
  /\ pc' = [pc EXCEPT ![r] = "done"]
  /\ UNCHANGED <<db0, args, ret, report>>

insert_into_call(r) ==
  /\ pc[r] = "call_insert_into"
  /\ LET a == args[r]
     IN \E end \in insert_into(a.table_name, a.values, a.column_names, a.inspect, a.engine) :
          /\ db' = end.db
          /\ loc' = [loc EXCEPT ![r].exc = end.exc, ![r].sql = end.sql,
                                ![r].types = end.types]
          /\ ops' = [ops EXCEPT ![r] = Append(@, Op("insert_into", end.exc = "none"))]
  /\ pc' = [pc EXCEPT ![r] = "done"]
  /\ UNCHANGED <<db0, args, ret, report>>

\* a row of n literal values
literal_row(n) == [i \in 1..n |-> IF i = 1 THEN 1 ELSE MaxVal]

\* lists of rows, each row of any length
LiteralValues ==
  UNION {{[i \in 1..m |-> literal_row(f[i])] : f \in [1..m -> 1..MaxRowLength]} :
           m \in 0..MaxValues}

\* column_types arguments: None, the empty list, lists of one to three names
TypeLists ==
  {None, <<>>, <<"integer">>, <<"INTEGER", "numeric">>, <<"int", "NUMERIC(10, 2)">>,
   <<"bool", "int", "varchar">>}

StagingCallArgs ==
  [call : {"Values", "select_into", "insert_into"},
   table_name : {"tmp_t"},
   values : LiteralValues,
   column_names : {<<"k">>, <<"k", "v">>},
   column_types : TypeLists,
   inspect : BOOLEAN,
   engine : {"None"}]

\* the type strings str(column.type) gives for columns of the source table
SourceTypes ==
  {"INTEGER", "BOOLEAN", "DATE", "TEXT", "NUMERIC", "VARCHAR(10)", "NUMERIC(10, 2)",
   "TIMESTAMP WITHOUT TIME ZONE", "geometry(POINT,4326)"}

InitStagingCall ==
  /\ \E tmp \in LeftOver :
       db = [d \in Databases |->
               IF d = "default" THEN [n \in TableNames |-> IF n = "t" THEN Absent ELSE tmp]
               ELSE [n \in TableNames |-> Absent]]
  /\ \E a \in StagingCallArgs :
       /\ args = [r \in Runs |-> a]
       /\ pc = [r \in Runs |-> IF r = 1 THEN "call_" \o a.call ELSE "idle"]

InitStagingRun ==
  /\ \E n \in 1..MaxValues, type \in SourceTypes :
       db = [d \in Databases |->
               IF d = "default"
               THEN [t |-> TypedTable(<<"k", "v">>, <<"INTEGER", type>>,
                                      [i \in 1..n |-> [k |-> i, v |-> 1]]),
                     tmp_t |-> Absent]
               ELSE [n2 \in TableNames |-> Absent]]
  /\ \E b \in {-1, 1} :
       args = [r \in Runs |->
                 [table_name |-> "t", join_columns |-> <<"k">>, target_columns |-> <<"v">>,
                  update_row |-> "function", batch_size |-> b, engine |-> "None",
                  returns |-> "any length"]]
  /\ pc = [r \in Runs |-> IF r = 1 THEN "call" ELSE "idle"]

InitStaging ==
  /\ InitStagingCall \/ InitStagingRun
  /\ db0 = db
  /\ loc = [r \in Runs |-> NoLocals]
  /\ ret = [r \in Runs |-> <<>>]
  /\ ops = [r \in Runs |-> <<>>]
  /\ report = [r \in Runs |-> <<>>]

NextStaging ==
  \/ \E r \in Runs : Values_call(r)
  \/ \E r \in Runs : select_into_call(r)
  \/ \E r \in Runs : insert_into_call(r)
  \/ Next

SpecStaging == InitStaging /\ [][NextStaging]_vars

\* run r was a direct call of name, and it has returned or raised
Called(r, name) ==
  /\ "call" \in DOMAIN args[r]
  /\ args[r].call = name
  /\ pc[r] = "done"

\* the call of run r was given a list of types that is not as long as its
\* list of column names
TypesMisfit(r) ==
  /\ args[r].column_types # None
  /\ Len(args[r].column_types) # Len(args[r].column_names)

\* C21 as stated: whenever the list of column types has another length than
\* the list of column names, Values raises ArgumentError and select_into
\* raises ValueError, with no SQL built or executed and no table created
C21_TypeArityRejected ==
  \A r \in Runs :
    /\ (Called(r, "Values") /\ TypesMisfit(r)) =>
         loc[r].exc = "ArgumentError" /\ loc[r].sql = "none"
    /\ (Called(r, "select_into") /\ TypesMisfit(r)) =>
         loc[r].exc = "ValueError" /\ loc[r].sql = "none" /\ db = db0

\* C21 amended: a non-empty list of column types of another length than the
\* column names makes Values raise ArgumentError, and makes a select_into
\* that was given rows raise ValueError, with no SQL built or executed and
\* no table created; an empty list counts as no types given
C21_NonEmptyTypeArityRejected ==
  \A r \in Runs :
    /\ (Called(r, "Values") /\ TypesMisfit(r) /\ args[r].column_types # <<>>) =>
         loc[r].exc = "ArgumentError" /\ loc[r].sql = "none"
    /\ (Called(r, "select_into") /\ TypesMisfit(r) /\ args[r].column_types # <<>>
          /\ args[r].values # <<>>) =>
         loc[r].exc = "ValueError" /\ loc[r].sql = "none" /\ db = db0

\* a select_into of rows into a table that does not exist yet, with one type
\* for two columns, has raised ValueError
C21_Witness ==
  /\ Called(1, "select_into")
  /\ args[1].column_types = <<"integer">> /\ args[1].column_names = <<"k", "v">>
  /\ args[1].values # <<>>
  /\ ~table_in(db0, "default", "tmp_t").exists
  /\ loc[1].exc = "ValueError"

\* some row of the values has another length than the column names
RowsMisfit(values, names) == ~all_row_length(Len(names), values)

\* the rows update_row returned in run r, in the order it returned them
Returned(r) ==
  SelectSeq([i \in 1..Len(ret[r]) |-> ret[r][i].out], LAMBDA out : out.kind = "row")

\* update_row returned a row of another length than column_names in run r
TransformMisfit(r) ==
  \E i \in 1..Len(ret[r]) :
    ret[r][i].out.kind = "row" /\ Len(ret[r][i].out.row) # Len(column_names(r))

\* run r is an update_rows call
IsUpdateRows(r) == "update_row" \in DOMAIN args[r]

\* the staging call of the latest batch of run r failed
StagingRejected(r) ==
  /\ pc[r] \in {"finally", "raised"}
  /\ Did(r, "select_into", FALSE) \/ Did(r, "insert_into", FALSE)

\* C22 as stated: a value row of another length than the column names is
\* rejected before any SQL is built, by Values, select_into, insert_into and
\* the staging calls of update_rows
C22_RowArityRejectedBeforeSql ==
  \A r \in Runs :
    /\ \A name \in {"Values", "select_into", "insert_into"} :
         (Called(r, name) /\ RowsMisfit(args[r].values, args[r].column_names)) =>
           loc[r].exc # "none" /\ loc[r].sql = "none"
    /\ (IsUpdateRows(r) /\ StagingRejected(r)
          /\ RowsMisfit(loc[r].rows_to_send, column_names(r))) =>
         loc[r].sql = "none"

\* the call of run r gets as far as its VALUES relation: the table is there
\* for insert_into and not there for select_into, the types fit
ReachesValues(r) ==
  /\ args[r].column_types \in {None, <<>>}
       \/ Len(args[r].column_types) = Len(args[r].column_names)
  /\ Called(r, "select_into") => ~table_in(db0, "default", args[r].table_name).exists
  /\ Called(r, "insert_into") => table_in(db0, "default", args[r].table_name).exists

\* C22 amended: select_into and insert_into reject a row of another length
\* with ValueError before any SQL is built when inspect is true; with inspect
\* false, and in Values and the staging calls of update_rows, the row is
\* rejected only while the statement is compiled (IndexError, longer row) or
\* executed (database error, shorter row); no such row is ever stored and
\* the run never merges
C22_RowArityRejected ==
  \A r \in Runs :
    /\ \A name \in {"select_into", "insert_into"} :
         (Called(r, name) /\ RowsMisfit(args[r].values, args[r].column_names)) =>
           /\ loc[r].exc # "none" /\ db = db0
           /\ args[r].inspect => loc[r].exc = "ValueError" /\ loc[r].sql = "none"
           /\ (~args[r].inspect /\ ReachesValues(r)) =>
                loc[r].exc \in {"IndexError", "DBError"} /\ loc[r].sql # "none"
    /\ (Called(r, "Values") /\ RowsMisfit(args[r].values, args[r].column_names)
          /\ ReachesValues(r)) =>
         loc[r].sql # "none"
    /\ (IsUpdateRows(r) /\ TransformMisfit(r)) =>
         /\ ~Tried(r, "update_from")
         /\ pc[r] # "returned"
         /\ pc[r] = "raised" => loc[r].exc \in {"IndexError", "DBError", "TransformError"}
                                /\ ~Staging(r).exists

\* an update_rows run whose transform returned a row that is too short has
\* sent the statement to the database, which rejected it
C22_Witness ==
  /\ IsUpdateRows(1) /\ TransformMisfit(1)
  /\ Did(1, "select_into", FALSE)
  /\ loc[1].exc = "DBError" /\ loc[1].sql = "executed"

\* the name a type string starts with: up to its first bracket or blank
RECURSIVE TypeName(_)
TypeName(x) ==
  IF Len(x) = 0 \/ SubSeq(x, 1, 1) \in {"(", " "} THEN ""
  ELSE SubSeq(x, 1, 1) \o TypeName(SubSeq(x, 2, Len(x)))

\* the type family of a column type string such as NUMERIC(10, 2): what a
\* column of the type its name stands for is reflected as
TypeFamily(x) == staged_type(COLUMN_TYPE_MAP[lower(TypeName(x))])

\* the type string of column c of a table
TypeOf(table, c) == table.types[Index(table.cols, c)]

\* C23: the staging table update_rows creates gives every column the type
\* family of the same column of the source table, whatever the source type
\* (parameterised and multi-word type strings too); no column that is not
\* text is staged as text
C23_StagedTypeFamily ==
  \A r \in Runs :
    (IsUpdateRows(r) /\ Did(r, "select_into", TRUE) /\ Staging(r).exists) =>
      \A c \in Range(column_names(r)) :
        TypeFamily(TypeOf(Staging(r), c)) = TypeFamily(TypeOf(Target0(r), c))

(***************************************************************************)
(* Direct calls of schema.drop_table                                       *)
(***************************************************************************)
\* the most calls of one function in a row
MaxCalls == 3

\* a drop_table that raises for a missing table whatever checkfirst says
drop_table_checkfirst_strict(name, checkfirst) ==
  IF ~table_exists(name)
  THEN [exc |-> "ValueError", db |-> db]
  ELSE [exc |-> "none", db |-> drop_table(name)]

\* drop_table(table_or_name, checkfirst): the exception raised and the
\* database after the call
drop_table_checkfirst(name, checkfirst) ==
  IF ~checkfirst /\ ~table_exists(name)
  THEN [exc |-> "ValueError", db |-> db]
  ELSE [exc |-> "none", db |-> drop_table(name)]

\* one more call of drop_table on the same table, with either checkfirst
drop_table_call(r) ==
  /\ pc[r] = "call_drop_table"
  /\ Len(ret[r]) < MaxCalls
  /\ \E checkfirst \in BOOLEAN :
       LET end == drop_table_checkfirst(args[r].table_name, checkfirst)
       IN /\ db' = end.db
          /\ ret' = [ret EXCEPT ![r] = Append(@,
                       [checkfirst |-> checkfirst, exc |-> end.exc,
                        before |-> db, after |-> end.db])]
          /\ ops' = [ops EXCEPT ![r] = Append(@, Op("drop_table", end.exc = "none"))]
  /\ UNCHANGED <<db0, args, pc, loc, report>>

InitDropTable ==
  /\ \E t \in InitialTables, tmp \in LeftOver :
       db = [d \in Databases |->
               IF d = "default" THEN [n \in TableNames |-> IF n = "t" THEN t ELSE tmp]
               ELSE [n \in TableNames |-> Absent]]
  /\ db0 = db
  /\ \E name \in {"t", "tmp_t", "nope"} : args = [r \in Runs |-> [table_name |-> name]]
  /\ pc = [r \in Runs |-> IF r = 1 THEN "call_drop_table" ELSE "idle"]
  /\ loc = [r \in Runs |-> NoLocals]
  /\ ret = [r \in Runs |-> <<>>]
  /\ ops = [r \in Runs |-> <<>>]
  /\ report = [r \in Runs |-> <<>>]

NextDropTable == \E r \in Runs : drop_table_call(r)

SpecDropTable == InitDropTable /\ [][NextDropTable]_vars

\* run r is a series of drop_table calls
IsDropTable(r) == pc[r] = "call_drop_table"

\* C24: drop_table with checkfirst=True raises nothing, changes nothing when
\* the table is absent and leaves the table absent, so a second call in a
\* row has the effect of the first alone; with checkfirst=False on an absent
\* table it raises ValueError and changes nothing
C24_DropTableCheckfirst ==
  \A r \in Runs : IsDropTable(r) =>
    \A i \in 1..Len(ret[r]) :
      LET call == ret[r][i]
          absent == ~table_in(call.before, "default", args[r].table_name).exists
      IN /\ call.checkfirst =>
              /\ call.exc = "none"
              /\ absent => call.after = call.before
              /\ ~table_in(call.after, "default", args[r].table_name).exists
              /\ (i > 1 /\ ret[r][i - 1].checkfirst) => call.after = ret[r][i - 1].after
         /\ (~call.checkfirst /\ absent) =>
              call.exc = "ValueError" /\ call.after = call.before

\* an existing table was dropped with checkfirst=True twice in a row, then
\* a call with checkfirst=False raised ValueError
C24_Witness ==
  /\ IsDropTable(1) /\ Len(ret[1]) = 3
  /\ table_in(db0, "default", args[1].table_name).exists
  /\ ret[1][1].checkfirst /\ ret[1][2].checkfirst /\ ~ret[1][3].checkfirst
  /\ ret[1][2].exc = "none" /\ ret[1][3].exc = "ValueError"

(***************************************************************************)
(* sql.select_from, sql.insert_from                                        *)
(***************************************************************************)
\* the columns of the source that column_names asks for: all of them for
\* None or "*", else those it names that the source has
named_cols(from_table, names) ==
  IF names = None \/ "*" \in Range(names) THEN from_table.cols
  ELSE SelectSeq(from_table.cols, LAMBDA c : c \in Range(names))

\* a row with the columns cols of row s, NULL in columns s lacks
row_of(cols, s) == [c \in Range(cols) |-> IF c \in DOMAIN s THEN s[c] ELSE NULL]

\* select_from(table_name, into_table_name, column_names, engine): the ways
\* the call can end
select_from(d, table_name, into_table_name, names) ==
  LET from_table == get_table(d, table_name)
      end(e, w, newdb) == [exc |-> e, warn |-> w, db |-> newdb]
      select_cols == named_cols(from_table, names)
      created == TypedTable(select_cols, col_types(from_table, select_cols),
                            [i \in 1..Len(from_table.rows) |->
                               row_of(select_cols, from_table.rows[i])])
  IN IF ~from_table.exists \/ table_exists(into_table_name)
     THEN {end("ValueError", "none", db)}
     ELSE IF select_cols = <<>>
     THEN {end("none", "no columns to insert", db)}
     ELSE IF get_table(d, into_table_name).exists
     THEN {end("DBError", "none", db)}
     ELSE {end("none", "none", [db EXCEPT ![d][into_table_name] = created]),
           end("DBError", "none", db)}

\* ON from.c = into.c for every join column
insert_join_on(join_columns, s, t) == SqlAnd({SqlEq(s[c], t[c]) : c \in Range(join_columns)})

\* the rows SELECT ... FROM from LEFT OUTER JOIN into ON ... WHERE into.c IS
\* NULL for every join column gives: a source row with no joined target row
\* comes once, with NULL for the columns of into; a joined pair comes only
\* if the target row is NULL in every join column
insert_vals(from_table, into_table, join_columns) ==
  LET joined(s) == {j \in 1..Len(into_table.rows) :
                      insert_join_on(join_columns, s, into_table.rows[j]) = "true"}
      copies(s) ==
        IF joined(s) = {} THEN 1
        ELSE Cardinality({j \in joined(s) :
               \A c \in Range(join_columns) : into_table.rows[j][c] = NULL})
      RECURSIVE rows_from(_)
      rows_from(i) ==
        IF i > Len(from_table.rows) THEN <<>>
        ELSE [n \in 1..copies(from_table.rows[i]) |-> from_table.rows[i]] \o rows_from(i + 1)
  IN rows_from(1)

\* insert_from(table_name, into_table_name, column_names, join_columns,
\* create_if_not_exists, engine): the ways the call can end
insert_from(d, table_name, into_table_name, names, join_columns, create_if_not_exists) ==
  LET from_table == get_table(d, table_name)
      into_table == get_table(d, into_table_name)
      end(e, w, newdb) == [exc |-> e, warn |-> w, db |-> newdb]
      joining == join_columns # None /\ join_columns # <<>>
      insert_cols == named_cols(from_table, names)
      vals == IF joining THEN insert_vals(from_table, into_table, join_columns)
              ELSE from_table.rows
      rows == into_table.rows \o
                [i \in 1..Len(vals) |-> row_of(into_table.cols, row_of(insert_cols, vals[i]))]
  IN IF ~from_table.exists
     THEN {end("ValueError", "none", db)}
     ELSE IF ~into_table.exists
     THEN IF create_if_not_exists
          THEN select_from(d, table_name, into_table_name, names)
          ELSE {end("ValueError", "none", db)}
     ELSE IF joining /\ ~(validate_columns_in(from_table, join_columns)
                          /\ validate_columns_in(into_table, join_columns))
     THEN {end("ValueError", "none", db)}
     ELSE IF insert_cols = <<>>
     THEN {end("none", "no columns to insert", db)}
     ELSE IF ~(Range(insert_cols) \subseteq Range(into_table.cols))
     THEN {end("DBError", "none", db)}
     ELSE {end("none", "none", [db EXCEPT ![d][into_table_name].rows = rows]),
           end("DBError", "none", db)}

\* one more insert_from call with the arguments of run r
insert_from_call(r) ==
  /\ pc[r] = "call_insert_from"
  /\ Len(ret[r]) < MaxCalls
  /\ LET a == args[r]
     IN \E end \in insert_from(EngineDb(a.engine), a.table_name, a.into_table_name,
                               a.column_names, a.join_columns, a.create_if_not_exists) :
          /\ db' = end.db
          /\ ret' = [ret EXCEPT ![r] = Append(@,
                       [exc |-> end.exc, warn |-> end.warn, before |-> db, after |-> end.db])]
          /\ ops' = [ops EXCEPT ![r] = Append(@, Op("insert_from", end.exc = "none"))]
  /\ UNCHANGED <<db0, args, pc, loc, report>>

\* rows of columns k and v with the given join values, in order
KeyRows(keys) == [i \in 1..Len(keys) |-> [k |-> keys[i], v |-> 1]]

\* sequences of up to n join values, NULL among them, in ascending order
KeyLists(n, top) ==
  {s \in UNION {[1..m -> 0..top] : m \in 0..n} :
     \A i \in 1..(Len(s) - 1) : s[i] <= s[i + 1]}

InsertFromArgs ==
  [table_name : {"t"}, into_table_name : {"tmp_t"},
   column_names : {None, <<"*">>, <<"k", "v">>, <<"v">>, <<"v", "nope">>, <<"nope">>},
   join_columns : {None, <<"k">>, <<"k", "v">>},
   create_if_not_exists : BOOLEAN,
   engine : {"None"}]
  \cup
  [table_name : {"t", "nope"}, into_table_name : {"tmp_t"},
   column_names : {<<"*">>},
   join_columns : {<<"nope">>},
   create_if_not_exists : {FALSE},
   engine : {"None"}]

InitInsertFrom ==
  /\ \E keys \in KeyLists(MaxFromRows, MaxVal),
        into \in {Absent} \cup {Table(<<"k", "v">>, {}, KeyRows(s)) : s \in KeyLists(MaxIntoRows, 1)} :
       db = [d \in Databases |->
               IF d = "default"
               THEN [t |-> Table(<<"k", "v">>, {}, KeyRows(keys)), tmp_t |-> into]
               ELSE [n \in TableNames |-> Absent]]
  /\ db0 = db
  /\ \E a \in InsertFromArgs : args = [r \in Runs |-> a]
  /\ pc = [r \in Runs |-> IF r = 1 THEN "call_insert_from" ELSE "idle"]
  /\ loc = [r \in Runs |-> NoLocals]
  /\ ret = [r \in Runs |-> <<>>]
  /\ ops = [r \in Runs |-> <<>>]
  /\ report = [r \in Runs |-> <<>>]

NextInsertFrom == \E r \in Runs : insert_from_call(r)

SpecInsertFrom == InitInsertFrom /\ [][NextInsertFrom]_vars

\* run r is a series of insert_from calls with join columns
IsInsertFromJoin(r) ==
  /\ pc[r] = "call_insert_from"
  /\ args[r].join_columns \notin {None, <<>>}

\* the source rows no row of the target matches on every join column
Unmatched(from_table, into_table, join_columns) ==
  {i \in 1..Len(from_table.rows) :
     ~\E j \in 1..Len(into_table.rows) :
        \A c \in Range(join_columns) :
          SqlEq(from_table.rows[i][c], into_table.rows[j][c]) = "true"}

\* C25: an insert_from with join columns that inserts into an existing table
\* adds one row for each source row that no target row matches on all join
\* columns, so a second call right after a first one that succeeded adds no
\* row, whatever the source holds
C25_InsertFromOnlyUnmatched ==
  \A r \in Runs : IsInsertFromJoin(r) =>
    \A i \in 1..Len(ret[r]) :
      LET call == ret[r][i]
          from_table == table_in(call.before, "default", args[r].table_name)
          before == table_in(call.before, "default", args[r].into_table_name)
          after == table_in(call.after, "default", args[r].into_table_name)
      IN (call.exc = "none" /\ call.warn = "none" /\ before.exists) =>
           /\ Len(after.rows) - Len(before.rows) =
                Cardinality(Unmatched(from_table, before, args[r].join_columns))
           /\ (i > 1 /\ ret[r][i - 1].exc = "none") => Len(after.rows) = Len(before.rows)

(***************************************************************************)
(* The order of the steps of one update_rows run                           *)
(***************************************************************************)
\* the places of the operations called name among the operations of run r
Places(r, name) == {i \in 1..Len(ops[r]) : ops[r][i].op = name}

\* the number of batches fetched before operation i of run r
BatchOf(r, i) == Cardinality({j \in Places(r, "fetchmany") : j < i})

\* the number of batches of run r: range(0, table_count, batch_size)
Batches(r) ==
  (loc[r].table_count + loc[r].batch_size - 1) \div loc[r].batch_size

\* the places in ret[r] of the rows of batch b
RowsOfBatch(r, b) ==
  {n \in 1..Len(ret[r]) :
     (b - 1) * loc[r].batch_size < n /\ n <= b * loc[r].batch_size}

\* the staging operations and fetches of run r
LoopPlaces(r) ==
  Places(r, "fetchmany") \cup Places(r, "select_into") \cup Places(r, "insert_into")

\* the reads of the staging row count: the first count is of the target
StagingCounts(r) == Places(r, "get_table_count") \ {1}

\* C26: in one update_rows run the staging table is created at most once,
\* in the first batch that yields a row that is not skipped; every append
\* follows the creation; the staging rows are counted once, after the last
\* batch; update_from is called at most once, after all batches; and the
\* drop of the staging table is the last database action
C26_StagingLifecycle ==
  \A r \in Runs : IsUpdateRows(r) =>
    /\ Cardinality(Places(r, "select_into")) <= 1
    /\ \A i \in Places(r, "select_into") :
         /\ \A b \in 1..(BatchOf(r, i) - 1) :
              \A n \in RowsOfBatch(r, b) : ret[r][n].out.kind = "None"
         /\ \E n \in RowsOfBatch(r, BatchOf(r, i)) : ret[r][n].out.kind = "row"
    /\ \A i \in Places(r, "insert_into") :
         \E j \in 1..(i - 1) : ops[r][j] = Op("select_into", TRUE)
    /\ Cardinality(StagingCounts(r)) <= 1
    /\ Cardinality(Places(r, "update_from")) <= 1
    /\ \A i \in StagingCounts(r) \cup Places(r, "update_from") :
         /\ BatchOf(r, i) = Batches(r)
         /\ \A j \in LoopPlaces(r) : j < i
         /\ \A j \in StagingCounts(r) : j <= i
    /\ \A i \in Places(r, "drop_table") : i = Len(ops[r])
    /\ (pc[r] \in {"returned", "raised"} /\ Tried(r, "select")) =>
         ops[r][Len(ops[r])].op = "drop_table"

\* a run of three batches skipped the first, created the staging table in
\* the second, appended the third, counted, merged and dropped
C26_Witness ==
  /\ pc[1] = "returned" /\ loc[1].table_count = 3 /\ loc[1].batch_size = 1
  /\ ret[1][1].out.kind = "None"
  /\ Did(1, "select_into", TRUE) /\ Did(1, "insert_into", TRUE)
  /\ Did(1, "update_from", TRUE) /\ Did(1, "drop_table", TRUE)

\* the staging operations of run r that succeeded between its fetch of
\* batch b and its next fetch
StagedBatch(r, b) ==
  {i \in Places(r, "select_into") \cup Places(r, "insert_into") :
     ops[r][i].ok /\ BatchOf(r, i) = b}

\* C27: the batches of one update_rows run do not overlap: no row of a batch
\* is transformed and no batch is fetched before the rows of the batch before
\* were staged, and the run holds the rows of one batch at most
C27_BatchesDoNotOverlap ==
  \A r \in Runs : (IsUpdateRows(r) /\ Tried(r, "select")) =>
    LET fetches == Cardinality(Places(r, "fetchmany"))
    IN /\ Len(ret[r]) <= fetches * loc[r].batch_size
       /\ \A b \in 1..(fetches - 1) :
            (\E n \in RowsOfBatch(r, b) : ret[r][n].out.kind = "row") =>
              StagedBatch(r, b) # {}
       /\ Len(loc[r].fetched) + Len(loc[r].rows_to_send) <= loc[r].batch_size

\* the second batch of a run was fetched after the row of the first was
\* staged
C27_Witness ==
  /\ IsUpdateRows(1) /\ pc[1] = "update_row"
  /\ loc[1].batch_size = 1 /\ Cardinality(Places(1, "fetchmany")) = 2
  /\ ret[1][1].out.kind = "row" /\ Did(1, "select_into", TRUE)

\* the rows the cursor of run r returns: the columns column_names of the
\* target's rows
CursorRows(r) ==
  [i \in 1..Len(Target0(r).rows) |->
     [j \in 1..Len(column_names(r)) |-> Target0(r).rows[i][column_names(r)[j]]]]

\* run r is between a fetch and the staging of what it fetched
InBatch(r) == pc[r] \in {"update_row", "stage"}

\* C28: every fetch of update_rows returns batch_size rows at most, and
\* fewer only in the last batch; a negative batch_size makes one batch of
\* the whole table; the transform is applied once to every row, in cursor
\* order, so it is called as many times as the table has rows
C28_BatchesCoverTable ==
  \A r \in Runs : (IsUpdateRows(r) /\ Tried(r, "select")) =>
    LET fetches == Cardinality(Places(r, "fetchmany"))
        size == Cardinality(RowsOfBatch(r, fetches)) + Len(loc[r].fetched)
    IN /\ Len(loc[r].fetched) <= loc[r].batch_size
       /\ InBatch(r) => size <= loc[r].batch_size
       /\ (InBatch(r) /\ fetches < Batches(r)) => size = loc[r].batch_size
       /\ args[r].batch_size < 0 =>
            /\ fetches <= 1
            /\ InBatch(r) => size = loc[r].table_count
       /\ \A n \in 1..Len(ret[r]) : ret[r][n].row = CursorRows(r)[n]
       /\ (Tried(r, "update_from") \/ pc[r] = "returned") =>
            Len(ret[r]) = Len(Target0(r).rows)

\* a table of three rows was transformed in batches of two and one
C28_Witness ==
  /\ IsUpdateRows(1) /\ pc[1] = "returned"
  /\ loc[1].table_count = 3 /\ loc[1].batch_size = 2
  /\ Cardinality(Places(1, "fetchmany")) = 2 /\ Len(ret[1]) = 3

(***************************************************************************)
(* One call of update_rows with or without an explicit engine              *)
(***************************************************************************)
\* the target is in the database of the engine of the call; the other
\* database may hold a table with the name of the staging table
InitEngine ==
  /\ \E engine \in {"None", "other"}, t \in InitialTables, tmp \in LeftOver, left \in LeftOver :
       /\ db = [d \in Databases |->
                  IF d = EngineDb(engine)
                  THEN [n \in TableNames |-> IF n = "t" THEN t ELSE tmp]
                  ELSE [n \in TableNames |-> IF n = "t" THEN Absent ELSE left]]
       /\ \E b \in {-1, 1, MaxRows} :
            args = [r \in Runs |->
                      [table_name |-> "t", join_columns |-> <<"k">>,
                       target_columns |-> <<"v">>, update_row |-> "function",
                       batch_size |-> b, engine |-> engine, returns |-> "same length"]]
  /\ db0 = db
  /\ pc = [r \in Runs |-> IF r = 1 THEN "call" ELSE "idle"]
  /\ loc = [r \in Runs |-> NoLocals]
  /\ ret = [r \in Runs |-> <<>>]
  /\ ops = [r \in Runs |-> <<>>]
  /\ report = [r \in Runs |-> <<>>]

SpecEngine == InitEngine /\ [][Next]_vars

\* the databases other than the one of the engine of run r
OtherDbs(r) == Databases \ {EngineDb(args[r].engine)}

\* C29: in an update_rows call with an explicit engine every staging
\* operation works on the database of that engine: no other database
\* changes, and the staging table the run created there is gone when the
\* call ends
C29_StagingOnEngine ==
  \A r \in Runs : (IsUpdateRows(r) /\ args[r].engine # "None") =>
    /\ \A d \in OtherDbs(r) : db[d] = db0[d]
    /\ (pc[r] \in {"returned", "raised"} /\ ~Staging0(r).exists) => ~Staging(r).exists

\* C30: update_rows drops the table tmp_<target> only if the run created it:
\* a table of that name that was there before the call is there with the
\* same rows when the call ends
C30_ForeignStagingKept ==
  \A r \in Runs : (IsUpdateRows(r) /\ Staging0(r).exists) =>
    (pc[r] \in {"returned", "raised"} => Staging(r) = Staging0(r))

====
